---- MODULE Spec2Model ----
(***************************************************************************)
(* Model of honeycombio/otel-config-go, package otelconfig: the option     *)
(* application, the environment overlay, the resource builder, the         *)
(* endpoint resolver and the hand-off to the pipeline constructors.        *)
(*                                                                         *)
(* Representation of Go strings.  A Go string is a sequence of tokens;     *)
(* a token is either one of the delimiter characters the code looks at     *)
(* (":" "/" "," "=" " ") or a word, a non-empty run of other characters    *)
(* written as one TLA+ string.  "https://h:443" is                         *)
(* <<"https", ":", "/", "/", "h", ":", "443">> and "" is <<>>.  No string  *)
(* of the model holds two adjacent words, so two Go strings are equal      *)
(* exactly when their token sequences are.                                 *)
(***************************************************************************)
EXTENDS Integers, Sequences, FiniteSets, TLC

VARIABLES
    environ,                 \* the process environment (os.LookupEnv)
    hostname,                \* os.Hostname()
    SetVendorOptions,        \* the vendor hook: not registered, or the options it returns
    DefaultExporterEndpoint, \* package variable, a vendor may change it
    defLogger,               \* package variable: the cached logger
    defaultLoggerLevel,      \* logLevel of the one defaultLogger object
    opts,                    \* the options the caller passes
    c,                       \* the Config newConfig returned
    err,                     \* the error newConfig returned
    pc,                      \* position of the caller
    calls,                   \* number of resolver calls made on c
    ret,                     \* result of the latest resolver call
    prev,                    \* c, ret and the callee before the latest resolver call
    otel                     \* the process-wide OpenTelemetry state and the OtelConfig

vars == <<environ, hostname, SetVendorOptions, DefaultExporterEndpoint, defLogger,
          defaultLoggerLevel, opts, c, err, pc, calls, ret, prev, otel>>

----------------------------------------------------------------------------
(* strings, net/url *)

\* strings.Index(s, t) for a one-token t: 0-based position of the first t, or -1
Index(s, t) ==
    IF \E i \in 1..Len(s) : s[i] = t
    THEN (CHOOSE i \in 1..Len(s) : s[i] = t /\ \A j \in 1..(i - 1) : s[j] # t) - 1
    ELSE -1

HasPrefix(s, p) == Len(s) >= Len(p) /\ SubSeq(s, 1, Len(p)) = p

TrimPrefix(s, p) == IF HasPrefix(s, p) THEN SubSeq(s, Len(p) + 1, Len(s)) ELSE s

\* strings.Split(s, sep): "" splits into one empty string
RECURSIVE Split(_, _)
Split(s, sep) ==
    LET ix == Index(s, sep)
    IN  IF ix < 0 THEN <<s>>
        ELSE <<SubSeq(s, 1, ix)>> \o Split(SubSeq(s, ix + 2, Len(s)), sep)

\* strings.SplitN(s, sep, 2)
SplitN2(s, sep) ==
    LET ix == Index(s, sep)
    IN  IF ix < 0 THEN <<s>>
        ELSE <<SubSeq(s, 1, ix), SubSeq(s, ix + 2, Len(s))>>

RECURSIVE TrimLeft(_)
TrimLeft(s) == IF s # <<>> /\ Head(s) = " " THEN TrimLeft(Tail(s)) ELSE s

RECURSIVE TrimRight(_)
TrimRight(s) ==
    IF s # <<>> /\ s[Len(s)] = " " THEN TrimRight(SubSeq(s, 1, Len(s) - 1)) ELSE s

TrimSpace(s) == TrimRight(TrimLeft(s))

\* strconv.ParseBool
ParseBool(s) ==
    IF s \in {<<"1">>, <<"t">>, <<"T">>, <<"TRUE">>, <<"true">>, <<"True">>}
    THEN [ok |-> TRUE, v |-> TRUE]
    ELSE IF s \in {<<"0">>, <<"f">>, <<"F">>, <<"FALSE">>, <<"false">>, <<"False">>}
    THEN [ok |-> TRUE, v |-> FALSE]
    ELSE [ok |-> FALSE, v |-> FALSE]

----------------------------------------------------------------------------
(* package constants *)

GRPCDefaultPort == <<"4317">>
HTTPDefaultPort == <<"4318">>
SSLDefaultPort == <<"443">>

ProtocolGRPC == <<"grpc">>
ProtocolHTTPProto == <<"http", "/", "protobuf">>
ProtocolHTTPJSON == <<"http", "/", "json">>

HttpsScheme == <<"https", ":", "/", "/">>
HttpScheme == <<"http", ":", "/", "/">>

\* semconv attribute keys and the fixed values newResource writes
ServiceNameKey == <<"service.name">>
ServiceVersionKey == <<"service.version">>
HostNameKey == <<"host.name">>
TelemetrySDKNameKey == <<"telemetry.sdk.name">>
TelemetrySDKLanguageKey == <<"telemetry.sdk.language">>
TelemetrySDKVersionKey == <<"telemetry.sdk.version">>
SchemaURL == <<"https", ":", "/", "/", "opentelemetry.io", "/", "schemas", "/", "1.25.0">>
version == <<"version">>

\* *bool
NilBool == [isNil |-> TRUE, v |-> FALSE]
PtrBool(b) == [isNil |-> FALSE, v |-> b]

\* []string: a nil slice and an empty slice differ for reflect.Value.IsZero
NilSlice == [isNil |-> TRUE, elems |-> <<>>]
Slice(e) == [isNil |-> FALSE, elems |-> e]

\* map[string]string
EmptyMap == [k \in {} |-> <<>>]
MapSet(m, k, v) == [x \in DOMAIN m \cup {k} |-> IF x = k THEN v ELSE m[x]]
\* for k, v := range src { dst[k] = v }
MapCopyInto(dst, src) ==
    [x \in DOMAIN dst \cup DOMAIN src |-> IF x \in DOMAIN src THEN src[x] ELSE dst[x]]

\* the environment: a variable is unset, or set to a text (possibly empty)
Unset == [set |-> FALSE, val |-> <<>>]
SetTo(v) == [set |-> TRUE, val |-> v]

----------------------------------------------------------------------------
(* Config and the options *)

\* a logger is the one defaultLogger object or a logger of the caller
DefaultLoggerObj == "defaultLogger"

\* &Config{...} of newConfig, before the DefaultExporterEndpoint fallback
InitialConfig(logger) ==
    [ ExporterEndpoint                |-> <<>>,
      ExporterEndpointInsecure        |-> FALSE,
      TracesExporterEndpoint          |-> <<>>,
      TracesExporterEndpointInsecure  |-> FALSE,
      TracesEnabled                   |-> NilBool,
      ServiceName                     |-> <<>>,
      ServiceVersion                  |-> <<>>,
      MetricsExporterEndpoint         |-> <<>>,
      MetricsExporterEndpointInsecure |-> FALSE,
      MetricsEnabled                  |-> NilBool,
      MetricsReportingPeriod          |-> <<>>,
      LogLevel                        |-> <<>>,
      Propagators                     |-> NilSlice,
      ExporterProtocol                |-> <<>>,
      TracesExporterProtocol          |-> <<>>,
      MetricsExporterProtocol         |-> <<>>,
      Headers                         |-> EmptyMap,
      TracesHeaders                   |-> EmptyMap,
      MetricsHeaders                  |-> EmptyMap,
      ResourceAttributes              |-> EmptyMap,
      SpanProcessors                  |-> <<>>,
      Sampler                         |-> "AlwaysSample",
      ResourceOptions                 |-> <<>>,
      Resource                        |-> [schemaURL |-> <<>>, attrs |-> EmptyMap],
      Logger                          |-> logger,
      ShutdownFunctions               |-> <<>>,
      errorHandler                    |-> [handler |-> "defaultHandler", logger |-> logger] ]

\* a Config before newConfig has returned one
NoConfig == InitialConfig("none")

\* An Option is the closure a With... function returns: its name and the value
\* it captured.
Opt(name, value) == [name |-> name, value |-> value]

WithExporterEndpoint(cfg, url) == [cfg EXCEPT !.ExporterEndpoint = url]
WithExporterInsecure(cfg, insecure) == [cfg EXCEPT !.ExporterEndpointInsecure = insecure]
WithMetricsExporterEndpoint(cfg, url) == [cfg EXCEPT !.MetricsExporterEndpoint = url]
WithTracesExporterEndpoint(cfg, url) == [cfg EXCEPT !.TracesExporterEndpoint = url]
WithServiceName(cfg, name) == [cfg EXCEPT !.ServiceName = name]
WithServiceVersion(cfg, v) == [cfg EXCEPT !.ServiceVersion = v]
WithHeaders(cfg, headers) == [cfg EXCEPT !.Headers = MapCopyInto(@, headers)]
WithTracesHeaders(cfg, headers) == [cfg EXCEPT !.TracesHeaders = MapCopyInto(@, headers)]
WithMetricsHeaders(cfg, headers) == [cfg EXCEPT !.MetricsHeaders = MapCopyInto(@, headers)]
WithLogLevel(cfg, loglevel) == [cfg EXCEPT !.LogLevel = loglevel]
WithTracesExporterInsecure(cfg, insecure) ==
    [cfg EXCEPT !.TracesExporterEndpointInsecure = insecure]
WithMetricsExporterInsecure(cfg, insecure) ==
    [cfg EXCEPT !.MetricsExporterEndpointInsecure = insecure]
WithResourceAttributes(cfg, attributes) ==
    [cfg EXCEPT !.ResourceAttributes = MapCopyInto(@, attributes)]
WithResourceOption(cfg, option) == [cfg EXCEPT !.ResourceOptions = Append(@, option)]
WithPropagators(cfg, propagators) == [cfg EXCEPT !.Propagators = propagators]
WithErrorHandler(cfg, handler) ==
    [cfg EXCEPT !.errorHandler = [handler |-> handler, logger |-> "none"]]
WithMetricsEnabled(cfg, enabled) == [cfg EXCEPT !.MetricsEnabled = PtrBool(enabled)]
WithTracesEnabled(cfg, enabled) == [cfg EXCEPT !.TracesEnabled = PtrBool(enabled)]
WithSpanProcessor(cfg, sp) == [cfg EXCEPT !.SpanProcessors = @ \o sp]
WithShutdown(cfg, f) == [cfg EXCEPT !.ShutdownFunctions = Append(@, f)]
WithExporterProtocol(cfg, protocol) == [cfg EXCEPT !.ExporterProtocol = protocol]
WithTracesExporterProtocol(cfg, protocol) ==
    [cfg EXCEPT !.TracesExporterProtocol = protocol]
WithMetricsExporterProtocol(cfg, protocol) ==
    [cfg EXCEPT !.MetricsExporterProtocol = protocol]
WithSampler(cfg, sampler) == [cfg EXCEPT !.Sampler = sampler]
WithLogger(cfg, logger) == [cfg EXCEPT !.Logger = logger]

\* fmt.Sprint(p) of a time.Duration given in whole seconds (Duration.String)
DurationString(p) ==
    CASE p = 0 -> <<"0s">>
      [] p = 1 -> <<"1s">>
      [] p = 30 -> <<"30s">>
      [] p = 90 -> <<"1m30s">>
      [] p = -1 -> <<"-1s">>
      [] OTHER -> <<"?s">>

WithMetricsReportingPeriod(cfg, p) ==
    [cfg EXCEPT !.MetricsReportingPeriod = DurationString(p)]

\* opt(c)
ApplyOption(cfg, o) ==
    CASE o.name = "WithExporterEndpoint" -> WithExporterEndpoint(cfg, o.value)
      [] o.name = "WithExporterInsecure" -> WithExporterInsecure(cfg, o.value)
      [] o.name = "WithMetricsExporterEndpoint" -> WithMetricsExporterEndpoint(cfg, o.value)
      [] o.name = "WithTracesExporterEndpoint" -> WithTracesExporterEndpoint(cfg, o.value)
      [] o.name = "WithServiceName" -> WithServiceName(cfg, o.value)
      [] o.name = "WithServiceVersion" -> WithServiceVersion(cfg, o.value)
      [] o.name = "WithHeaders" -> WithHeaders(cfg, o.value)
      [] o.name = "WithTracesHeaders" -> WithTracesHeaders(cfg, o.value)
      [] o.name = "WithMetricsHeaders" -> WithMetricsHeaders(cfg, o.value)
      [] o.name = "WithLogLevel" -> WithLogLevel(cfg, o.value)
      [] o.name = "WithTracesExporterInsecure" -> WithTracesExporterInsecure(cfg, o.value)
      [] o.name = "WithMetricsExporterInsecure" -> WithMetricsExporterInsecure(cfg, o.value)
      [] o.name = "WithResourceAttributes" -> WithResourceAttributes(cfg, o.value)
      [] o.name = "WithResourceOption" -> WithResourceOption(cfg, o.value)
      [] o.name = "WithPropagators" -> WithPropagators(cfg, o.value)
      [] o.name = "WithErrorHandler" -> WithErrorHandler(cfg, o.value)
      [] o.name = "WithMetricsReportingPeriod" -> WithMetricsReportingPeriod(cfg, o.value)
      [] o.name = "WithMetricsEnabled" -> WithMetricsEnabled(cfg, o.value)
      [] o.name = "WithTracesEnabled" -> WithTracesEnabled(cfg, o.value)
      [] o.name = "WithSpanProcessor" -> WithSpanProcessor(cfg, o.value)
      [] o.name = "WithShutdown" -> WithShutdown(cfg, o.value)
      [] o.name = "WithExporterProtocol" -> WithExporterProtocol(cfg, o.value)
      [] o.name = "WithTracesExporterProtocol" -> WithTracesExporterProtocol(cfg, o.value)
      [] o.name = "WithMetricsExporterProtocol" -> WithMetricsExporterProtocol(cfg, o.value)
      [] o.name = "WithSampler" -> WithSampler(cfg, o.value)
      [] o.name = "WithLogger" -> WithLogger(cfg, o.value)

\* for _, opt := range list { opt(c) }
RECURSIVE ApplyOptions(_, _)
ApplyOptions(cfg, list) ==
    IF list = <<>> THEN cfg ELSE ApplyOptions(ApplyOption(cfg, Head(list)), Tail(list))

\* WithLogger(l) stores l in defLogger when the option is built: the value of
\* defLogger after the options of list have been built in order
RECURSIVE LoggerAfterBuilding(_, _)
LoggerAfterBuilding(list, logger) ==
    IF list = <<>> THEN logger
    ELSE LoggerAfterBuilding(Tail(list),
             IF Head(list).name = "WithLogger" THEN Head(list).value ELSE logger)

----------------------------------------------------------------------------
(* the environment overlay: envconfig.Process over the env tags of Config *)

EnvTag(field, key, overwrite, hasDefault, default, kind) ==
    [field |-> field, key |-> key, overwrite |-> overwrite,
     hasDefault |-> hasDefault, default |-> default, kind |-> kind]

\* the `env:"..."` tags of Config, in field order
EnvTags ==
    << EnvTag("ExporterEndpoint", "OTEL_EXPORTER_OTLP_ENDPOINT", TRUE, FALSE, <<>>, "string"),
       EnvTag("ExporterEndpointInsecure", "OTEL_EXPORTER_OTLP_INSECURE", FALSE, TRUE,
              <<"false">>, "bool"),
       EnvTag("TracesExporterEndpoint", "OTEL_EXPORTER_OTLP_TRACES_ENDPOINT", TRUE, FALSE,
              <<>>, "string"),
       EnvTag("TracesExporterEndpointInsecure", "OTEL_EXPORTER_OTLP_TRACES_INSECURE", FALSE,
              FALSE, <<>>, "bool"),
       EnvTag("TracesEnabled", "OTEL_TRACES_ENABLED", FALSE, TRUE, <<"true">>, "boolptr"),
       EnvTag("ServiceName", "OTEL_SERVICE_NAME", TRUE, FALSE, <<>>, "string"),
       EnvTag("ServiceVersion", "OTEL_SERVICE_VERSION", TRUE, TRUE, <<"unknown">>, "string"),
       EnvTag("MetricsExporterEndpoint", "OTEL_EXPORTER_OTLP_METRICS_ENDPOINT", TRUE, FALSE,
              <<>>, "string"),
       EnvTag("MetricsExporterEndpointInsecure", "OTEL_EXPORTER_OTLP_METRICS_INSECURE", FALSE,
              FALSE, <<>>, "bool"),
       EnvTag("MetricsEnabled", "OTEL_METRICS_ENABLED", FALSE, TRUE, <<"true">>, "boolptr"),
       EnvTag("MetricsReportingPeriod", "OTEL_EXPORTER_OTLP_METRICS_PERIOD", TRUE, TRUE,
              <<"30s">>, "string"),
       EnvTag("LogLevel", "OTEL_LOG_LEVEL", TRUE, TRUE, <<"info">>, "string"),
       EnvTag("Propagators", "OTEL_PROPAGATORS", TRUE, TRUE,
              <<"tracecontext", ",", "baggage">>, "list"),
       EnvTag("ExporterProtocol", "OTEL_EXPORTER_OTLP_PROTOCOL", TRUE, TRUE, <<"grpc">>,
              "string"),
       EnvTag("TracesExporterProtocol", "OTEL_EXPORTER_OTLP_TRACES_PROTOCOL", TRUE, FALSE,
              <<>>, "string"),
       EnvTag("MetricsExporterProtocol", "OTEL_EXPORTER_OTLP_METRICS_PROTOCOL", TRUE, FALSE,
              <<>>, "string"),
       EnvTag("Headers", "OTEL_EXPORTER_OTLP_HEADERS", TRUE, FALSE, <<>>, "map"),
       EnvTag("TracesHeaders", "OTEL_EXPORTER_OTLP_TRACES_HEADERS", TRUE, FALSE, <<>>, "map"),
       EnvTag("MetricsHeaders", "OTEL_EXPORTER_OTLP_METRICS_HEADERS", TRUE, FALSE, <<>>,
              "map"),
       EnvTag("ResourceAttributes", "OTEL_RESOURCE_ATTRIBUTES", TRUE, FALSE, <<>>, "map") >>

\* the environment variables the package reads
EnvNames == {EnvTags[i].key : i \in 1..Len(EnvTags)}

\* the tag of a Config field
TagOf(field) == EnvTags[CHOOSE i \in 1..Len(EnvTags) : EnvTags[i].field = field]

\* envconfig: a slice value is split at "," and every element trimmed
ParseList(v) ==
    LET vals == Split(v, ",")
    IN  Slice([i \in 1..Len(vals) |-> TrimSpace(vals[i])])

\* envconfig: a map value is split at ",", every item at the first separator "=",
\* key and value trimmed; an item without separator is an error; a later item
\* replaces an earlier one of the same key
RECURSIVE ParseMapItems(_, _)
ParseMapItems(vals, m) ==
    IF vals = <<>> THEN [ok |-> TRUE, v |-> m]
    ELSE LET pair == SplitN2(Head(vals), "=")
         IN  IF Len(pair) < 2 THEN [ok |-> FALSE, v |-> m]
             ELSE ParseMapItems(Tail(vals),
                      MapSet(m, TrimSpace(pair[1]), TrimSpace(pair[2])))

ParseMap(v) == ParseMapItems(Split(v, ","), EmptyMap)

\* reflect.Value.IsZero of the field, or a pointer that was set
FieldIsSet(cur, kind) ==
    CASE kind = "string" -> cur # <<>>
      [] kind = "bool" -> cur
      [] kind = "boolptr" -> ~cur.isNil
      [] kind = "list" -> ~cur.isNil
      [] kind = "map" -> TRUE      \* the maps of a Config are never nil

\* envconfig processField: the empty text sets nothing (but a nil pointer has
\* been allocated by then)
ProcessField(val, cur, kind) ==
    CASE kind = "string" -> [ok |-> TRUE, v |-> IF val = <<>> THEN cur ELSE val]
      [] kind = "bool" ->
            IF val = <<>> THEN [ok |-> TRUE, v |-> cur]
            ELSE [ok |-> ParseBool(val).ok, v |-> ParseBool(val).v]
      [] kind = "boolptr" ->
            LET alloc == IF cur.isNil THEN PtrBool(FALSE) ELSE cur
            IN  IF val = <<>> THEN [ok |-> TRUE, v |-> alloc]
                ELSE [ok |-> ParseBool(val).ok, v |-> PtrBool(ParseBool(val).v)]
      [] kind = "list" ->
            IF val = <<>> THEN [ok |-> TRUE, v |-> cur]
            ELSE [ok |-> TRUE, v |-> ParseList(val)]
      [] kind = "map" ->
            IF val = <<>> THEN [ok |-> TRUE, v |-> cur]
            ELSE [ok |-> ParseMap(val).ok, v |-> ParseMap(val).v]

\* a variant without the overwrite flag, in which a field that is set is never
\* replaced: the C1 property must tell it from EnvField
EnvField_KeepsSet(cur, tag, env) ==
    LET isSet == FieldIsSet(cur, tag.kind)
        found == env[tag.key].set
        val == IF found THEN env[tag.key].val
               ELSE IF tag.hasDefault THEN tag.default ELSE <<>>
    IN  IF isSet THEN [ok |-> TRUE, v |-> cur]
        ELSE ProcessField(val, cur, tag.kind)

\* a variant that takes the default of the tag for a variable set to the
\* empty text: the C30 property must tell it from EnvField
EnvField_DefaultForEmpty(cur, tag, env) ==
    LET isSet == FieldIsSet(cur, tag.kind)
        found == env[tag.key].set /\ env[tag.key].val # <<>>
        val == IF found THEN env[tag.key].val
               ELSE IF tag.hasDefault THEN tag.default ELSE <<>>
    IN  IF isSet /\ ~tag.overwrite THEN [ok |-> TRUE, v |-> cur]
        ELSE IF isSet /\ ~found THEN [ok |-> TRUE, v |-> cur]
        ELSE ProcessField(val, cur, tag.kind)

\* envconfig, one tagged field: a field that is set is skipped unless the tag
\* says overwrite; the default is used only for a field that is not set; a
\* field that is set is replaced only by a variable found in the environment
EnvField(cur, tag, env) ==
    LET isSet == FieldIsSet(cur, tag.kind)
        found == env[tag.key].set
        val == IF found THEN env[tag.key].val
               ELSE IF tag.hasDefault THEN tag.default ELSE <<>>
    IN  IF isSet /\ ~tag.overwrite THEN [ok |-> TRUE, v |-> cur]
        ELSE IF isSet /\ ~found THEN [ok |-> TRUE, v |-> cur]
        ELSE ProcessField(val, cur, tag.kind)

\* envconfig.Process(ctx, c): the fields in order, stopping at the first error
RECURSIVE ProcessFrom(_, _, _)
ProcessFrom(cfg, i, env) ==
    IF i > Len(EnvTags) THEN [c |-> cfg, envError |-> FALSE]
    ELSE LET tag == EnvTags[i]
             r == EnvField(cfg[tag.field], tag, env)
         IN  IF ~r.ok THEN [c |-> cfg, envError |-> TRUE]
             ELSE ProcessFrom([cfg EXCEPT ![tag.field] = r.v], i + 1, env)

Process(cfg, env) == ProcessFrom(cfg, 1, env)

----------------------------------------------------------------------------
(* the resource builder: newResource over the SDK's resource.New *)

Res(schemaURL, attrs) == [schemaURL |-> schemaURL, attrs |-> attrs]

\* resource.NewSchemaless / NewWithAttributes keep the valid attributes only:
\* those with a non-empty key
ValidAttrs(attrs) == [k \in DOMAIN attrs \ {<<>>} |-> attrs[k]]

\* what a detector returns: a resource and "nil", "error" or "partial"
Detected(res, e) == [res |-> res, err |-> e]

\* a caller's resource.Option: resource.WithAttributes(attrs...), or
\* resource.WithDetectors(d) for a detector that declares a schema URL and may fail
ResourceOption(schemaURL, attrs, fails) ==
    [schemaURL |-> schemaURL, attrs |-> attrs, fails |-> fails]

WithAttributes(attrs) == ResourceOption(<<>>, attrs, FALSE)

DetectOption(o) ==
    IF o.fails THEN Detected(Res(<<>>, EmptyMap), "error")
    ELSE Detected(Res(o.schemaURL, ValidAttrs(o.attrs)), "nil")

\* resource.Merge(a, b): b's attributes win; two different non-empty schema
\* URLs conflict, and the merged resource is then schemaless
Merge(a, b) ==
    LET combine == MapCopyInto(a.attrs, b.attrs)
    IN  CASE a.schemaURL = <<>> -> [res |-> Res(b.schemaURL, combine), conflict |-> FALSE]
          [] b.schemaURL = <<>> -> [res |-> Res(a.schemaURL, combine), conflict |-> FALSE]
          [] a.schemaURL = b.schemaURL ->
                [res |-> Res(a.schemaURL, combine), conflict |-> FALSE]
          [] OTHER -> [res |-> Res(<<>>, combine), conflict |-> TRUE]

\* resource.WithHost()
DetectHost(host) == Detected(Res(SchemaURL, [k \in {HostNameKey} |-> host]), "nil")

\* the SDK's constructOTResources: the items of OTEL_RESOURCE_ATTRIBUTES, split
\* at "," and cut at the first "="; an item without "=" is skipped and reported
RECURSIVE ConstructOTResources(_, _, _)
ConstructOTResources(pairs, attrs, invalid) ==
    IF pairs = <<>> THEN [attrs |-> attrs, invalid |-> invalid]
    ELSE LET kv == SplitN2(Head(pairs), "=")
         IN  IF Len(kv) < 2 THEN ConstructOTResources(Tail(pairs), attrs, TRUE)
             ELSE ConstructOTResources(Tail(pairs),
                      MapSet(attrs, TrimSpace(kv[1]), TrimSpace(kv[2])), invalid)

\* resource.WithFromEnv(): OTEL_RESOURCE_ATTRIBUTES, and service.name from
\* OTEL_SERVICE_NAME on top of it
DetectFromEnv(env) ==
    LET attrs == TrimSpace(env["OTEL_RESOURCE_ATTRIBUTES"].val)
        svcName == TrimSpace(env["OTEL_SERVICE_NAME"].val)
        r2 == IF attrs = <<>> THEN [attrs |-> EmptyMap, invalid |-> FALSE]
              ELSE ConstructOTResources(Split(attrs, ","), EmptyMap, FALSE)
        named == IF svcName = <<>> THEN ValidAttrs(r2.attrs)
                 ELSE MapSet(ValidAttrs(r2.attrs), ServiceNameKey, svcName)
    IN  IF attrs = <<>> /\ svcName = <<>> THEN Detected(Res(<<>>, EmptyMap), "nil")
        ELSE Detected(Res(<<>>, named), IF r2.invalid THEN "partial" ELSE "nil")

\* a variant that does not trim OTEL_SERVICE_VERSION: the C12 property must tell
\* it from DetectServiceVersion
DetectServiceVersion_Untrimmed(env) ==
    LET serviceVersion == env["OTEL_SERVICE_VERSION"].val
    IN  IF serviceVersion = <<>> THEN Detected(Res(<<>>, EmptyMap), "nil")
        ELSE Detected(Res(<<>>, [k \in {ServiceVersionKey} |-> serviceVersion]), "nil")

\* serviceVersionDetector.Detect
DetectServiceVersion(env) ==
    LET serviceVersion == TrimSpace(env["OTEL_SERVICE_VERSION"].val)
    IN  IF serviceVersion = <<>> THEN Detected(Res(<<>>, EmptyMap), "nil")
        ELSE Detected(Res(<<>>, [k \in {ServiceVersionKey} |-> serviceVersion]), "nil")

\* the SDK's detect: the detectors' results merged in order, every error kept
RECURSIVE Detect(_, _, _)
Detect(res, errs, results) ==
    IF results = <<>> THEN [res |-> res, errs |-> errs]
    ELSE LET d == Head(results)
             errs1 == IF d.err = "nil" THEN errs ELSE Append(errs, "detector error")
             m == Merge(res, d.res)
         IN  IF d.err = "error" THEN Detect(res, errs1, Tail(results))
             ELSE Detect(m.res,
                         IF m.conflict THEN Append(errs1, "conflicting Schema URL")
                         ELSE errs1,
                         Tail(results))

\* the non-empty values of c.ResourceAttributes
NonEmptyAttributes(m) == [k \in {x \in DOMAIN m : m[x] # <<>>} |-> m[k]]

\* a variant that reads the environment before the host and SDK attributes:
\* the C9 property must tell it from ResourceDetections
ResourceDetections_EnvEarly(cfg, env, host) ==
    <<DetectOption(WithAttributes(NonEmptyAttributes(cfg.ResourceAttributes)))>>
    \o [i \in 1..Len(cfg.ResourceOptions) |-> DetectOption(cfg.ResourceOptions[i])]
    \o <<DetectFromEnv(env)>>
    \o (IF cfg.ServiceName # <<>>
        THEN <<DetectOption(WithAttributes([k \in {ServiceNameKey} |-> cfg.ServiceName]))>>
        ELSE <<>>)
    \o (IF cfg.ServiceVersion # <<>>
        THEN <<DetectOption(WithAttributes([k \in {ServiceVersionKey} |-> cfg.ServiceVersion]))>>
        ELSE <<>>)
    \o <<DetectHost(host)>>
    \o <<DetectOption(WithAttributes(
            [k \in {TelemetrySDKNameKey, TelemetrySDKLanguageKey, TelemetrySDKVersionKey} |->
                CASE k = TelemetrySDKNameKey -> <<"otelconfig">>
                  [] k = TelemetrySDKLanguageKey -> <<"go">>
                  [] OTHER -> version]))>>
    \o <<DetectServiceVersion(env)>>

\* the options newResource hands to resource.New, as the detectors' results in
\* the order of the options
ResourceDetections(cfg, env, host) ==
    <<DetectOption(WithAttributes(NonEmptyAttributes(cfg.ResourceAttributes)))>>
    \o [i \in 1..Len(cfg.ResourceOptions) |-> DetectOption(cfg.ResourceOptions[i])]
    \o (IF cfg.ServiceName # <<>>
        THEN <<DetectOption(WithAttributes([k \in {ServiceNameKey} |-> cfg.ServiceName]))>>
        ELSE <<>>)
    \o (IF cfg.ServiceVersion # <<>>
        THEN <<DetectOption(WithAttributes([k \in {ServiceVersionKey} |-> cfg.ServiceVersion]))>>
        ELSE <<>>)
    \o <<DetectHost(host)>>
    \o <<DetectOption(WithAttributes(
            [k \in {TelemetrySDKNameKey, TelemetrySDKLanguageKey, TelemetrySDKVersionKey} |->
                CASE k = TelemetrySDKNameKey -> <<"otelconfig">>
                  [] k = TelemetrySDKLanguageKey -> <<"go">>
                  [] OTHER -> version]))>>
    \o <<DetectFromEnv(env)>>
    \o <<DetectServiceVersion(env)>>

\* newResource(c): the resource and the errors of resource.New
newResource(cfg, env, host) ==
    Detect(Res(SchemaURL, EmptyMap), <<>>, ResourceDetections(cfg, env, host))

----------------------------------------------------------------------------
(* newConfig *)

\* a variant that applies the caller's options before the vendor's: the C3
\* property must tell it from newConfig
newConfig_CallerFirst(options, env, host, hook, defaultEndpoint, logger0, level0) ==
    LET c0 == [InitialConfig(logger0) EXCEPT !.ExporterEndpoint = defaultEndpoint]
        vendorOpts == IF hook.registered THEN hook.options ELSE <<>>
        logger1 == LoggerAfterBuilding(vendorOpts, logger0)
        c1 == ApplyOptions(c0, options \o vendorOpts)
        level1 == IF c1.Logger = DefaultLoggerObj THEN c1.LogLevel ELSE level0
        p == Process(c1, env)
        r == newResource(p.c, env, host)
    IN  IF p.envError
        THEN [c |-> NoConfig, err |-> <<"environment error">>,
              fatal |-> <<c1.Logger>>, exited |-> c1.Logger = DefaultLoggerObj,
              defLogger |-> logger1, level |-> level1]
        ELSE [c |-> [p.c EXCEPT !.Resource = r.res], err |-> r.errs,
              fatal |-> <<>>, exited |-> FALSE,
              defLogger |-> logger1, level |-> level1]

\* a variant in which every Config starts with the default logger: the C24
\* property must tell it from newConfig
newConfig_FreshLogger(options, env, host, hook, defaultEndpoint, logger0, level0) ==
    LET c0 == [InitialConfig(DefaultLoggerObj) EXCEPT !.ExporterEndpoint = defaultEndpoint]
        vendorOpts == IF hook.registered THEN hook.options ELSE <<>>
        logger1 == LoggerAfterBuilding(vendorOpts, logger0)
        c1 == ApplyOptions(c0, vendorOpts \o options)
        level1 == IF c1.Logger = DefaultLoggerObj THEN c1.LogLevel ELSE level0
        p == Process(c1, env)
        r == newResource(p.c, env, host)
    IN  IF p.envError
        THEN [c |-> NoConfig, err |-> <<"environment error">>,
              fatal |-> <<c1.Logger>>, exited |-> c1.Logger = DefaultLoggerObj,
              defLogger |-> logger1, level |-> level1]
        ELSE [c |-> [p.c EXCEPT !.Resource = r.res], err |-> r.errs,
              fatal |-> <<>>, exited |-> FALSE,
              defLogger |-> logger1, level |-> level1]

\* a variant that falls back to DefaultExporterEndpoint after the options
\* have been applied: the C22 property must tell it from newConfig
newConfig_DefaultEndpointLast(options, env, host, hook, defaultEndpoint, logger0, level0) ==
    LET vendorOpts == IF hook.registered THEN hook.options ELSE <<>>
        logger1 == LoggerAfterBuilding(vendorOpts, logger0)
        applied == ApplyOptions(InitialConfig(logger0), vendorOpts \o options)
        c1 == IF applied.ExporterEndpoint = <<>>
              THEN [applied EXCEPT !.ExporterEndpoint = defaultEndpoint] ELSE applied
        level1 == IF c1.Logger = DefaultLoggerObj THEN c1.LogLevel ELSE level0
        p == Process(c1, env)
        r == newResource(p.c, env, host)
    IN  IF p.envError
        THEN [c |-> NoConfig, err |-> <<"environment error">>,
              fatal |-> <<c1.Logger>>, exited |-> c1.Logger = DefaultLoggerObj,
              defLogger |-> logger1, level |-> level1]
        ELSE [c |-> [p.c EXCEPT !.Resource = r.res], err |-> r.errs,
              fatal |-> <<>>, exited |-> FALSE,
              defLogger |-> logger1, level |-> level1]

\* newConfig(opts...): the Config and error returned, whether the default
\* logger's Fatalf ended the process, and the package state it leaves
newConfig(options, env, host, hook, defaultEndpoint, logger0, level0) ==
    LET c0 == [InitialConfig(logger0) EXCEPT !.ExporterEndpoint = defaultEndpoint]
        vendorOpts == IF hook.registered THEN hook.options ELSE <<>>
        logger1 == LoggerAfterBuilding(vendorOpts, logger0)
        c1 == ApplyOptions(c0, vendorOpts \o options)
        level1 == IF c1.Logger = DefaultLoggerObj THEN c1.LogLevel ELSE level0
        p == Process(c1, env)
        r == newResource(p.c, env, host)
    IN  IF p.envError
        THEN [c |-> NoConfig, err |-> <<"environment error">>,
              fatal |-> <<c1.Logger>>, exited |-> c1.Logger = DefaultLoggerObj,
              defLogger |-> logger1, level |-> level1]
        ELSE [c |-> [p.c EXCEPT !.Resource = r.res], err |-> r.errs,
              fatal |-> <<>>, exited |-> FALSE,
              defLogger |-> logger1, level |-> level1]

----------------------------------------------------------------------------
(* the endpoint resolver *)

\* ensures that a port is set on the given host string, or adds the default port
ensurePort(host, defaultPort) ==
    LET ix == Index(host, ":")
    IN  CASE ix < 0 -> host \o <<":">> \o defaultPort
          [] ix = Len(host) - 1 -> host \o defaultPort
          [] OTHER -> host

\* url.Parse(endpoint).Host of an endpoint that starts with "https://" and has
\* no user information: the text between the scheme and the first "/"
urlHost(endpoint) ==
    LET rest == TrimPrefix(endpoint, HttpsScheme)
        slash == Index(rest, "/")
    IN  IF slash < 0 THEN rest ELSE SubSeq(rest, 1, slash)

\* (*url.URL).Port(): what follows the first ":" of the host
urlPort(host) ==
    LET colon == Index(host, ":")
    IN  IF colon < 0 THEN <<>> ELSE SubSeq(host, colon + 2, Len(host))

\* a variant that gives an https:// endpoint without port the grpc port: the
\* C6 property must tell it from secureGrpcPort
secureGrpcPort_GrpcPort(endpoint) ==
    LET uHost == urlHost(endpoint)
        host == IF urlPort(uHost) # <<>> THEN SubSeq(uHost, 1, Index(uHost, ":"))
                ELSE uHost
        port == IF urlPort(uHost) # <<>> THEN urlPort(uHost) ELSE GRPCDefaultPort
    IN  host \o <<":">> \o port

\* sets default secure port 443 if no port provided (net.SplitHostPort cuts at
\* the last ":"; the endpoints of the model have numeric ports, so url.Parse
\* does not fail)
secureGrpcPort(endpoint) ==
    LET uHost == urlHost(endpoint)
        host == IF urlPort(uHost) # <<>> THEN SubSeq(uHost, 1, Index(uHost, ":"))
                ELSE uHost
        port == IF urlPort(uHost) # <<>> THEN urlPort(uHost) ELSE SSLDefaultPort
    IN  host \o <<":">> \o port

\* trim http scheme from endpoint for proper parsing
trimHttpScheme(url, protocol) ==
    CASE HasPrefix(url, HttpsScheme) ->
            TrimPrefix(IF protocol = ProtocolGRPC THEN secureGrpcPort(url) ELSE url,
                       HttpsScheme)
      [] HasPrefix(url, HttpScheme) -> TrimPrefix(url, HttpScheme)
      [] OTHER -> url

\* what a resolver returns, and the Config it leaves
Resolved(cfg, endpoint, insecure) == [c |-> cfg, endpoint |-> endpoint, insecure |-> insecure]

\* a variant that falls back to the generic endpoint but not to the generic
\* insecure flag: the C4 property must tell it from getTracesEndpoint
getTracesEndpoint_OwnInsecure(cfg) ==
    IF cfg.TracesExporterEndpoint = <<>> /\ cfg.ExporterEndpoint = <<>>
    THEN Resolved(cfg, <<>>, FALSE)
    ELSE
    LET c1 == IF cfg.TracesExporterEndpoint = <<>>
              THEN [cfg EXCEPT !.TracesExporterEndpoint = cfg.ExporterEndpoint]
              ELSE cfg
        c2 == IF c1.TracesExporterProtocol = <<>>
              THEN [c1 EXCEPT !.TracesExporterProtocol = c1.ExporterProtocol]
              ELSE c1
        c3 == IF c2.TracesExporterProtocol = ProtocolGRPC
              THEN [c2 EXCEPT !.TracesExporterEndpoint =
                                  trimHttpScheme(c2.TracesExporterEndpoint, ProtocolGRPC)]
              ELSE c2
        port == IF c3.TracesExporterProtocol # ProtocolGRPC THEN HTTPDefaultPort
                ELSE GRPCDefaultPort
    IN  Resolved(c3, ensurePort(c3.TracesExporterEndpoint, port),
                 c3.TracesExporterEndpointInsecure)

\* a variant that stores the protocol it resolved in the generic protocol
\* too: the C25 property must tell it from getTracesEndpoint
getTracesEndpoint_WritesGeneric(cfg) ==
    IF cfg.TracesExporterEndpoint = <<>> /\ cfg.ExporterEndpoint = <<>>
    THEN Resolved(cfg, <<>>, FALSE)
    ELSE
    LET c1 == IF cfg.TracesExporterEndpoint = <<>>
              THEN [cfg EXCEPT !.TracesExporterEndpoint = cfg.ExporterEndpoint,
                               !.TracesExporterEndpointInsecure = cfg.ExporterEndpointInsecure]
              ELSE cfg
        c2 == IF c1.TracesExporterProtocol = <<>>
              THEN [c1 EXCEPT !.TracesExporterProtocol = c1.ExporterProtocol]
              ELSE [c1 EXCEPT !.ExporterProtocol = c1.TracesExporterProtocol]
        c3 == IF c2.TracesExporterProtocol = ProtocolGRPC
              THEN [c2 EXCEPT !.TracesExporterEndpoint =
                                  trimHttpScheme(c2.TracesExporterEndpoint, ProtocolGRPC)]
              ELSE c2
        port == IF c3.TracesExporterProtocol # ProtocolGRPC THEN HTTPDefaultPort
                ELSE GRPCDefaultPort
    IN  Resolved(c3, ensurePort(c3.TracesExporterEndpoint, port),
                 c3.TracesExporterEndpointInsecure)

\* (c *Config) getTracesEndpoint()
getTracesEndpoint(cfg) ==
    IF cfg.TracesExporterEndpoint = <<>> /\ cfg.ExporterEndpoint = <<>>
    THEN Resolved(cfg, <<>>, FALSE)
    ELSE
    LET c1 == IF cfg.TracesExporterEndpoint = <<>>
              THEN [cfg EXCEPT !.TracesExporterEndpoint = cfg.ExporterEndpoint,
                               !.TracesExporterEndpointInsecure = cfg.ExporterEndpointInsecure]
              ELSE cfg
        c2 == IF c1.TracesExporterProtocol = <<>>
              THEN [c1 EXCEPT !.TracesExporterProtocol = c1.ExporterProtocol]
              ELSE c1
        c3 == IF c2.TracesExporterProtocol = ProtocolGRPC
              THEN [c2 EXCEPT !.TracesExporterEndpoint =
                                  trimHttpScheme(c2.TracesExporterEndpoint, ProtocolGRPC)]
              ELSE c2
        port == IF c3.TracesExporterProtocol # ProtocolGRPC THEN HTTPDefaultPort
                ELSE GRPCDefaultPort
    IN  Resolved(c3, ensurePort(c3.TracesExporterEndpoint, port),
                 c3.TracesExporterEndpointInsecure)

\* a variant in which the generic insecure flag makes every metric endpoint
\* insecure: the C23 property must tell it from getMetricsEndpoint
getMetricsEndpoint_GenericInsecure(cfg) ==
    IF cfg.MetricsExporterEndpoint = <<>> /\ cfg.ExporterEndpoint = <<>>
    THEN Resolved(cfg, <<>>, FALSE)
    ELSE
    LET c1 == [cfg EXCEPT !.MetricsExporterEndpoint =
                              IF @ = <<>> THEN cfg.ExporterEndpoint ELSE @,
                          !.MetricsExporterEndpointInsecure =
                              IF cfg.MetricsExporterEndpoint = <<>>
                              THEN cfg.ExporterEndpointInsecure
                              ELSE @ \/ cfg.ExporterEndpointInsecure]
        c2 == IF c1.MetricsExporterProtocol = <<>>
              THEN [c1 EXCEPT !.MetricsExporterProtocol = c1.ExporterProtocol]
              ELSE c1
        c3 == IF c2.MetricsExporterProtocol = ProtocolGRPC
              THEN [c2 EXCEPT !.MetricsExporterEndpoint =
                                  trimHttpScheme(c2.MetricsExporterEndpoint, ProtocolGRPC)]
              ELSE c2
        port == IF c3.MetricsExporterProtocol = ProtocolGRPC THEN GRPCDefaultPort
                ELSE HTTPDefaultPort
    IN  Resolved(c3, ensurePort(c3.MetricsExporterEndpoint, port),
                 c3.MetricsExporterEndpointInsecure)

\* (c *Config) getMetricsEndpoint()
getMetricsEndpoint(cfg) ==
    IF cfg.MetricsExporterEndpoint = <<>> /\ cfg.ExporterEndpoint = <<>>
    THEN Resolved(cfg, <<>>, FALSE)
    ELSE
    LET c1 == IF cfg.MetricsExporterEndpoint = <<>>
              THEN [cfg EXCEPT !.MetricsExporterEndpoint = cfg.ExporterEndpoint,
                               !.MetricsExporterEndpointInsecure = cfg.ExporterEndpointInsecure]
              ELSE cfg
        c2 == IF c1.MetricsExporterProtocol = <<>>
              THEN [c1 EXCEPT !.MetricsExporterProtocol = c1.ExporterProtocol]
              ELSE c1
        c3 == IF c2.MetricsExporterProtocol = ProtocolGRPC
              THEN [c2 EXCEPT !.MetricsExporterEndpoint =
                                  trimHttpScheme(c2.MetricsExporterEndpoint, ProtocolGRPC)]
              ELSE c2
        port == IF c3.MetricsExporterProtocol = ProtocolGRPC THEN GRPCDefaultPort
                ELSE HTTPDefaultPort
    IN  Resolved(c3, ensurePort(c3.MetricsExporterEndpoint, port),
                 c3.MetricsExporterEndpointInsecure)

\* a variant in which a generic header wins over a traces header of the same
\* key: the C8 property must tell it from getTracesHeaders
getTracesHeaders_GenericWins(cfg) ==
    MapCopyInto(MapCopyInto(EmptyMap, cfg.TracesHeaders), cfg.Headers)

\* (c *Config) getTracesHeaders(): combine generic and traces headers
getTracesHeaders(cfg) == MapCopyInto(MapCopyInto(EmptyMap, cfg.Headers), cfg.TracesHeaders)

\* (c *Config) getMetricsHeaders(): combine generic and metrics headers
getMetricsHeaders(cfg) == MapCopyInto(MapCopyInto(EmptyMap, cfg.Headers), cfg.MetricsHeaders)

\* the PipelineConfig handed to a pipeline constructor; constructed is FALSE
\* when the setup function returns without calling the constructor
Handed(cfg, constructed, protocol, endpoint, insecure, headers) ==
    [c |-> cfg, constructed |-> constructed, protocol |-> protocol,
     endpoint |-> endpoint, insecure |-> insecure, headers |-> headers]

NotHanded(cfg) == Handed(cfg, FALSE, <<>>, <<>>, FALSE, EmptyMap)

\* var enabled bool: a nil *bool counts as enabled
Enabled(flag) == IF flag.isNil THEN TRUE ELSE flag.v

\* a variant that does not look at c.TracesEnabled: the C16 property must tell
\* it from tracingAfterEndpoint
tracingAfterEndpoint_AlwaysEnabled(r) ==
    IF r.endpoint = <<>> THEN NotHanded(r.c)
    ELSE Handed(r.c, TRUE, r.c.TracesExporterProtocol,
                trimHttpScheme(r.endpoint, r.c.TracesExporterProtocol),
                r.insecure, getTracesHeaders(r.c))

\* the rest of setupTracing after r, the result of c.getTracesEndpoint()
tracingAfterEndpoint(r) ==
    IF ~Enabled(r.c.TracesEnabled) \/ r.endpoint = <<>> THEN NotHanded(r.c)
    ELSE Handed(r.c, TRUE, r.c.TracesExporterProtocol,
                trimHttpScheme(r.endpoint, r.c.TracesExporterProtocol),
                r.insecure, getTracesHeaders(r.c))

\* setupTracing(c), up to the call of pipelines.NewTracePipeline
setupTracing(cfg) == tracingAfterEndpoint(getTracesEndpoint(cfg))

\* the rest of setupMetrics after r, the result of c.getMetricsEndpoint()
metricsAfterEndpoint(r) ==
    IF ~Enabled(r.c.MetricsEnabled) \/ r.endpoint = <<>> THEN NotHanded(r.c)
    ELSE Handed(r.c, TRUE, r.c.MetricsExporterProtocol,
                trimHttpScheme(r.endpoint, r.c.MetricsExporterProtocol),
                r.insecure, getMetricsHeaders(r.c))

\* setupMetrics(c), up to the call of pipelines.NewMetricsPipeline
setupMetrics(cfg) == metricsAfterEndpoint(getMetricsEndpoint(cfg))

----------------------------------------------------------------------------
(* the pipelines, ConfigureOpenTelemetry and Shutdown *)

\* The process-wide state of the otel package (error handler, tracer provider,
\* propagator, meter provider), the package variable ValidateConfig, what the
\* pipeline constructors called and what the SDK has built, the OtelConfig (shutdownFuncs, and whether its Shutdown was
\* returned), the Fatalf calls made, and the functions the latest Shutdown
\* invoked.
NoGlobals ==
    [ ValidateConfig    |-> "nil",
      errorHandler      |-> [handler |-> "sdkHandler", logger |-> "none"],
      tracerProvider    |-> [set |-> FALSE, processors |-> <<>>, sampler |-> "none"],
      textMapPropagator |-> [set |-> FALSE, props |-> <<>>],
      meterProvider     |-> [set |-> FALSE, interval |-> 0],
      called            |-> <<>>,
      built             |-> <<>>,
      pipelineConfig    |-> [given |-> FALSE],
      shutdownFuncs     |-> <<>>,
      shutdown          |-> "nil",
      fatals            |-> <<>>,
      invoked           |-> <<>>,
      shutdownCalls     |-> 0,
      debugf            |-> <<>>,
      sets              |-> <<>>,
      loggers           |-> <<>> ]

\* what a pipeline constructor leaves and returns
Pipeline(g, shutdown, e) == [g |-> g, shutdown |-> shutdown, err |-> e]

\* the PipelineConfig literal of setupTracing; the literal does not set
\* DisableDefaultSpanProcessor
TracePipelineConfig(h) ==
    [ Protocol |-> h.protocol, Endpoint |-> h.endpoint, Insecure |-> h.insecure,
      Headers |-> h.headers, Resource |-> h.c.Resource,
      Propagators |-> h.c.Propagators.elems, SpanProcessors |-> h.c.SpanProcessors,
      Sampler |-> h.c.Sampler, ReportingPeriod |-> <<>>,
      DisableDefaultSpanProcessor |-> FALSE ]

\* the PipelineConfig literal of setupMetrics
MetricsPipelineConfig(h) ==
    [ Protocol |-> h.protocol, Endpoint |-> h.endpoint, Insecure |-> h.insecure,
      Headers |-> h.headers, Resource |-> h.c.Resource,
      Propagators |-> <<>>, SpanProcessors |-> <<>>,
      Sampler |-> "none", ReportingPeriod |-> h.c.MetricsReportingPeriod,
      DisableDefaultSpanProcessor |-> FALSE ]

\* newTraceExporter: the error, <<>> when the exporter is created (the SDK's
\* exporter constructors are taken to succeed for grpc and http/protobuf)
newTraceExporter(protocol) ==
    CASE protocol = ProtocolGRPC -> <<>>
      [] protocol = ProtocolHTTPProto -> <<>>
      [] protocol = ProtocolHTTPJSON -> <<"http/json is currently unsupported">>
      [] OTHER -> <<"is not a supported protocol">>

\* newMetricsExporter: the error, <<>> when the exporter is created
newMetricsExporter(protocol) ==
    CASE protocol = ProtocolGRPC -> <<>>
      [] protocol = ProtocolHTTPProto -> <<>>
      [] protocol = ProtocolHTTPJSON -> <<"http/json is currently unsupported">>
      [] OTHER -> <<"is not a supported protocol">>

\* a variant that takes every key for a propagator: the C15 property must tell
\* it from configurePropagators
configurePropagators_AnyKey(p) ==
    [ props |-> p.Propagators,
      err |-> IF Len(p.Propagators) = 0
              THEN <<"invalid configuration: unsupported propagators",
                     "Supported options: b3,baggage,tracecontext,ottrace">>
              ELSE <<>> ]

\* configurePropagators: the propagators of the supported keys, in order, or
\* the error when there is none
configurePropagators(p) ==
    LET supported == {<<"b3">>, <<"baggage">>, <<"tracecontext">>, <<"ottrace">>}
        props == SelectSeq(p.Propagators, LAMBDA key : key \in supported)
    IN  [ props |-> props,
          err |-> IF Len(props) = 0
                  THEN <<"invalid configuration: unsupported propagators",
                         "Supported options: b3,baggage,tracecontext,ottrace">>
                  ELSE <<>> ]

\* a variant that builds a tracer provider without span processor: the C19
\* property must tell it from NewTracePipeline
NewTracePipeline_NoProcessor(p, g) ==
    LET exporter == IF p.DisableDefaultSpanProcessor THEN <<>>
                    ELSE newTraceExporter(p.Protocol)
        default == IF p.DisableDefaultSpanProcessor THEN <<>> ELSE <<"bsp">>
        g1 == [g EXCEPT !.built = @ \o (IF p.DisableDefaultSpanProcessor THEN <<>>
                                       ELSE <<"traceExporter">>)
                                   \o <<"tracerProvider">>]
        propagators == configurePropagators(p)
    IN  IF exporter # <<>>
        THEN Pipeline(g, "nil", <<"failed to create span exporter">> \o exporter)
        ELSE IF propagators.err # <<>>
        THEN Pipeline(g1, "nil", propagators.err)
        ELSE Pipeline([g1 EXCEPT
                         !.sets = @ \o <<"SetTextMapPropagator", "SetTracerProvider">>,
                         !.textMapPropagator = [set |-> TRUE, props |-> propagators.props],
                         !.tracerProvider = [set |-> TRUE,
                                             processors |-> p.SpanProcessors \o default,
                                             sampler |-> p.Sampler]],
                      IF p.DisableDefaultSpanProcessor THEN "emptyShutdown" ELSE "trace",
                      <<>>)

\* a variant that installs the tracer provider before it configures the
\* propagators: the C28 property must tell it from NewTracePipeline
NewTracePipeline_ProviderFirst(p, g) ==
    LET exporter == IF p.DisableDefaultSpanProcessor THEN <<>>
                    ELSE newTraceExporter(p.Protocol)
        default == IF p.DisableDefaultSpanProcessor THEN <<>> ELSE <<"bsp">>
        g1 == [g EXCEPT !.built = @ \o (IF p.DisableDefaultSpanProcessor THEN <<>>
                                       ELSE <<"traceExporter">>)
                                   \o <<"tracerProvider">>,
                        !.sets = Append(@, "SetTracerProvider"),
                        !.tracerProvider = [set |-> TRUE,
                                            processors |-> p.SpanProcessors \o default,
                                            sampler |-> p.Sampler]]
        propagators == configurePropagators(p)
    IN  IF exporter # <<>>
        THEN Pipeline(g, "nil", <<"failed to create span exporter">> \o exporter)
        ELSE IF p.DisableDefaultSpanProcessor /\ Len(p.SpanProcessors) = 0
        THEN Pipeline(g, "nil", <<"must provide at least one span processor if the default span processor is disabled">>)
        ELSE IF propagators.err # <<>>
        THEN Pipeline(g1, "nil", propagators.err)
        ELSE Pipeline([g1 EXCEPT
                         !.sets = Append(@, "SetTextMapPropagator"),
                         !.textMapPropagator = [set |-> TRUE, props |-> propagators.props]],
                      IF p.DisableDefaultSpanProcessor THEN "emptyShutdown" ELSE "trace",
                      <<>>)

\* NewTracePipeline(c): g is the process-wide state it starts from
NewTracePipeline(p, g) ==
    LET exporter == IF p.DisableDefaultSpanProcessor THEN <<>>
                    ELSE newTraceExporter(p.Protocol)
        default == IF p.DisableDefaultSpanProcessor THEN <<>> ELSE <<"bsp">>
        g1 == [g EXCEPT !.built = @ \o (IF p.DisableDefaultSpanProcessor THEN <<>>
                                       ELSE <<"traceExporter">>)
                                   \o <<"tracerProvider">>]
        propagators == configurePropagators(p)
    IN  IF exporter # <<>>
        THEN Pipeline(g, "nil", <<"failed to create span exporter">> \o exporter)
        ELSE IF p.DisableDefaultSpanProcessor /\ Len(p.SpanProcessors) = 0
        THEN Pipeline(g, "nil", <<"must provide at least one span processor if the default span processor is disabled">>)
        ELSE IF propagators.err # <<>>
        THEN Pipeline(g1, "nil", propagators.err)
        ELSE Pipeline([g1 EXCEPT
                         !.sets = @ \o <<"SetTextMapPropagator", "SetTracerProvider">>,
                         !.textMapPropagator = [set |-> TRUE, props |-> propagators.props],
                         !.tracerProvider = [set |-> TRUE,
                                             processors |-> p.SpanProcessors \o default,
                                             sampler |-> p.Sampler]],
                      IF p.DisableDefaultSpanProcessor THEN "emptyShutdown" ELSE "trace",
                      <<>>)

\* time.ParseDuration of the period texts in use: whether the text parses, and
\* the duration in seconds
ParseDuration(text) ==
    CASE text = <<"0s">> -> [ok |-> TRUE, seconds |-> 0]
      [] text = <<"1s">> -> [ok |-> TRUE, seconds |-> 1]
      [] text = <<"30s">> -> [ok |-> TRUE, seconds |-> 30]
      [] text = <<"1m30s">> -> [ok |-> TRUE, seconds |-> 90]
      [] text = <<"-1s">> -> [ok |-> TRUE, seconds |-> -1]
      [] OTHER -> [ok |-> FALSE, seconds |-> 0]

\* a variant that takes a period of zero: the C18 property must tell it from
\* NewMetricsPipeline
NewMetricsPipeline_ZeroPeriod(p, g) ==
    LET exporter == newMetricsExporter(p.Protocol)
        g1 == [g EXCEPT !.built = Append(@, "metricExporter")]
        period == ParseDuration(p.ReportingPeriod)
    IN  IF exporter # <<>>
        THEN Pipeline(g, "nil", <<"failed to create metric exporter">> \o exporter)
        ELSE IF p.ReportingPeriod # <<>> /\ (~period.ok \/ period.seconds < 0)
        THEN Pipeline(g1, "nil", <<"invalid metric reporting period">>)
        ELSE Pipeline([g1 EXCEPT
                         !.built = Append(@, "meterProvider"),
                         !.sets = Append(@, "SetMeterProvider"),
                         !.meterProvider = [set |-> TRUE, interval |-> period.seconds]],
                      "metric", <<>>)

\* NewMetricsPipeline(c): g is the process-wide state it starts from; a
\* periodic reader without interval option reads every 60 seconds
NewMetricsPipeline(p, g) ==
    LET exporter == newMetricsExporter(p.Protocol)
        g1 == [g EXCEPT !.built = Append(@, "metricExporter")]
        period == ParseDuration(p.ReportingPeriod)
    IN  IF exporter # <<>>
        THEN Pipeline(g, "nil", <<"failed to create metric exporter">> \o exporter)
        ELSE IF p.ReportingPeriod # <<>> /\ (~period.ok \/ period.seconds <= 0)
        THEN Pipeline(g1, "nil", <<"invalid metric reporting period">>)
        ELSE Pipeline([g1 EXCEPT
                         !.built = Append(@, "meterProvider"),
                         !.sets = Append(@, "SetMeterProvider"),
                         !.meterProvider =
                             [set |-> TRUE,
                              interval |-> IF p.ReportingPeriod # <<>>
                                           THEN period.seconds ELSE 60]],
                      "metric", <<>>)

\* the Fatalf calls newConfig made when it returned r
FatalsOf(r) == [i \in 1..Len(r.fatal) |-> [logger |-> r.fatal[i],
                                           message |-> "environment error", call |-> 0]]

\* what ConfigureOpenTelemetry leaves and returns; exited when a Fatalf of the
\* default logger has ended the process
Configured(cfg, g, e, exited) == [c |-> cfg, g |-> g, err |-> e, exited |-> exited]

\* the second round of ConfigureOpenTelemetry's loop: setupMetrics, h being
\* what it hands to the constructor, and the return
metricsRound(h, g) ==
    LET m == IF h.constructed
             THEN NewMetricsPipeline(MetricsPipelineConfig(h),
                      [g EXCEPT !.called = Append(@, "NewMetricsPipeline")])
             ELSE Pipeline(g, "nil", <<>>)
    IN  IF m.err # <<>>
        THEN Configured(h.c, [m.g EXCEPT !.shutdown = "otelConfig.Shutdown"],
                        <<"setup error">> \o m.err, FALSE)
        ELSE Configured(h.c,
                        [m.g EXCEPT !.shutdown = "otelConfig.Shutdown",
                                    !.shutdownFuncs = @ \o (IF m.shutdown # "nil"
                                                            THEN <<m.shutdown>> ELSE <<>>)],
                        <<>>, FALSE)

\* a variant that goes on to setupMetrics after an error of setupTracing and
\* returns that error: the C26 property must tell it from tracingRound
tracingRound_KeepsGoing(h, g) ==
    LET t == IF h.constructed
             THEN NewTracePipeline(TracePipelineConfig(h),
                      [g EXCEPT !.called = Append(@, "NewTracePipeline")])
             ELSE Pipeline(g, "nil", <<>>)
        m == metricsRound(setupMetrics(h.c),
                          [t.g EXCEPT !.shutdownFuncs = @ \o (IF t.shutdown # "nil"
                                                              THEN <<t.shutdown>>
                                                              ELSE <<>>)])
    IN  IF t.err # <<>>
        THEN Configured(m.c, m.g, <<"setup error">> \o t.err, FALSE)
        ELSE m

\* the first round of the loop: setupTracing, h being what it hands to the
\* constructor
tracingRound(h, g) ==
    LET t == IF h.constructed
             THEN NewTracePipeline(TracePipelineConfig(h),
                      [g EXCEPT !.called = Append(@, "NewTracePipeline")])
             ELSE Pipeline(g, "nil", <<>>)
    IN  IF t.err # <<>>
        THEN Configured(h.c, [t.g EXCEPT !.shutdown = "otelConfig.Shutdown"],
                        <<"setup error">> \o t.err, FALSE)
        ELSE metricsRound(setupMetrics(h.c),
                          [t.g EXCEPT !.shutdownFuncs = @ \o (IF t.shutdown # "nil"
                                                              THEN <<t.shutdown>>
                                                              ELSE <<>>)])

\* the Debugf calls of ConfigureOpenTelemetry when the log level is debug, r
\* being what newConfig returned: debugf holds, for each call, the logger, the
\* level of the default logger at the call, the text and the constructors
\* invoked so far; s holds what json.MarshalIndent(c) serialized, the exported
\* fields of the Config but Logger and ShutdownFunctions, tagged json:"-"
Debugged(r, g) ==
    LET entry(text, s) == [logger |-> r.c.Logger, level |-> r.level, text |-> text,
                           s |-> s, called |-> g.called]
        MarshalIndent == [f \in DOMAIN r.c \ {"Logger", "ShutdownFunctions",
                                               "errorHandler"} |-> r.c[f]]
    IN  IF r.c.LogLevel # <<"debug">> THEN g
        ELSE [g EXCEPT !.debugf = @ \o <<entry("debug logging enabled", <<>>),
                                         entry("configuration", <<>>),
                                         entry("string(s)", <<MarshalIndent>>)>>]

\* a variant that hands out the shutdown function together with newConfig's
\* error: the C14 property must tell it from ConfigureOpenTelemetry
ConfigureOpenTelemetry_ShutdownOnError(r, g) ==
    IF r.exited
    THEN Configured(r.c, [g EXCEPT !.fatals = @ \o FatalsOf(r)], r.err, TRUE)
    ELSE IF r.err # <<>>
    THEN Configured(r.c,
                    [g EXCEPT !.fatals = @ \o FatalsOf(r),
                              !.shutdown = "otelConfig.Shutdown"],
                    r.err, FALSE)
    ELSE IF g.ValidateConfig = "fails"
    THEN Configured(r.c, Debugged(r, g), <<"validation error">>, FALSE)
    ELSE tracingRound(setupTracing(r.c),
                      IF r.c.errorHandler.handler # "nil"
                      THEN [Debugged(r, g) EXCEPT !.errorHandler = r.c.errorHandler,
                                                  !.sets = Append(@, "SetErrorHandler")]
                      ELSE Debugged(r, g))

\* a variant that installs the error handler before it calls ValidateConfig:
\* the C27 property must tell it from ConfigureOpenTelemetry
ConfigureOpenTelemetry_HandlerFirst(r, g) ==
    LET installed == IF r.c.errorHandler.handler # "nil"
                     THEN [Debugged(r, g) EXCEPT !.errorHandler = r.c.errorHandler,
                                                 !.sets = Append(@, "SetErrorHandler")]
                     ELSE Debugged(r, g)
    IN  IF r.exited
        THEN Configured(r.c, [g EXCEPT !.fatals = @ \o FatalsOf(r)], r.err, TRUE)
        ELSE IF r.err # <<>>
        THEN Configured(r.c, [g EXCEPT !.fatals = @ \o FatalsOf(r)], r.err, FALSE)
        ELSE IF g.ValidateConfig = "fails"
        THEN Configured(r.c, installed, <<"validation error">>, FALSE)
        ELSE tracingRound(setupTracing(r.c), installed)

\* a variant that writes the debug output after the setup functions ran: the
\* C21 property must tell it from ConfigureOpenTelemetry
ConfigureOpenTelemetry_DebugAfterSetup(r, g) ==
    IF r.exited
    THEN Configured(r.c, [g EXCEPT !.fatals = @ \o FatalsOf(r)], r.err, TRUE)
    ELSE IF r.err # <<>>
    THEN Configured(r.c, [g EXCEPT !.fatals = @ \o FatalsOf(r)], r.err, FALSE)
    ELSE IF g.ValidateConfig = "fails"
    THEN Configured(r.c, Debugged(r, g), <<"validation error">>, FALSE)
    ELSE LET d == tracingRound(setupTracing(r.c),
                      IF r.c.errorHandler.handler # "nil"
                      THEN [g EXCEPT !.errorHandler = r.c.errorHandler,
                                     !.sets = Append(@, "SetErrorHandler")]
                      ELSE g)
         IN  Configured(d.c, Debugged([r EXCEPT !.c = d.c], d.g), d.err, d.exited)

\* ConfigureOpenTelemetry(opts...), r being what newConfig(opts...) returned
ConfigureOpenTelemetry(r, g) ==
    IF r.exited
    THEN Configured(r.c, [g EXCEPT !.fatals = @ \o FatalsOf(r)], r.err, TRUE)
    ELSE IF r.err # <<>>
    THEN Configured(r.c, [g EXCEPT !.fatals = @ \o FatalsOf(r)], r.err, FALSE)
    ELSE IF g.ValidateConfig = "fails"
    THEN Configured(r.c, Debugged(r, g), <<"validation error">>, FALSE)
    ELSE tracingRound(setupTracing(r.c),
                      IF r.c.errorHandler.handler # "nil"
                      THEN [Debugged(r, g) EXCEPT !.errorHandler = r.c.errorHandler,
                                                  !.sets = Append(@, "SetErrorHandler")]
                      ELSE Debugged(r, g))

\* the loops of Shutdown over fns, the functions still to call: a function is
\* called, its error goes to Fatalf (fatals holds the logger, the message and
\* the number of the Shutdown call), and the Fatalf of the default logger ends
\* the process
RECURSIVE Invoke(_, _, _)
Invoke(fns, cfg, g) ==
    IF fns = <<>> THEN [g |-> g, exited |-> FALSE]
    ELSE LET f == Head(fns)
             g1 == [g EXCEPT !.invoked = Append(@, [name |-> f.name, arg |-> f.arg,
                                                    failed |-> f.fails])]
             g2 == [g1 EXCEPT !.fatals = Append(@, [logger |-> cfg.Logger,
                                                    message |-> f.message,
                                                    call |-> g.shutdownCalls])]
         IN  IF ~f.fails THEN Invoke(Tail(fns), cfg, g1)
             ELSE IF cfg.Logger = DefaultLoggerObj THEN [g |-> g2, exited |-> TRUE]
             ELSE Invoke(Tail(fns), cfg, g2)

\* a variant that stops the pipelines before it calls the functions of the
\* Config: the C17 property must tell it from Shutdown
Shutdown_PipelinesFirst(cfg, g, failing) ==
    Invoke([i \in 1..Len(g.shutdownFuncs) |->
               [name |-> g.shutdownFuncs[i], arg |-> Res(<<>>, EmptyMap),
                fails |-> g.shutdownFuncs[i] \in failing,
                message |-> "failed to stop exporter"]]
           \o [i \in 1..Len(cfg.ShutdownFunctions) |->
                 [name |-> cfg.ShutdownFunctions[i].name, arg |-> cfg.Resource,
                  fails |-> cfg.ShutdownFunctions[i].fails,
                  message |-> "failed to stop exporter while calling config shutdown"]],
           cfg,
           [g EXCEPT !.invoked = <<>>, !.shutdownCalls = @ + 1])

\* (ls OtelConfig) Shutdown(): shutdown(ls.config) for the functions of
\* ls.config.ShutdownFunctions (the Resource stands for the Config passed),
\* then shutdown() for the functions of ls.shutdownFuncs; failing is the set of
\* the latter that return an error, invoked holds the calls of this Shutdown
Shutdown(cfg, g, failing) ==
    Invoke([i \in 1..Len(cfg.ShutdownFunctions) |->
               [name |-> cfg.ShutdownFunctions[i].name, arg |-> cfg.Resource,
                fails |-> cfg.ShutdownFunctions[i].fails,
                message |-> "failed to stop exporter while calling config shutdown"]]
           \o [i \in 1..Len(g.shutdownFuncs) |->
                 [name |-> g.shutdownFuncs[i], arg |-> Res(<<>>, EmptyMap),
                  fails |-> g.shutdownFuncs[i] \in failing,
                  message |-> "failed to stop exporter"]],
           cfg,
           [g EXCEPT !.invoked = <<>>, !.shutdownCalls = @ + 1])

----------------------------------------------------------------------------
(* the state machine: a caller builds options, calls newConfig, and calls the
   resolvers and setup functions on the Config it got *)

MaxCalls == 2

Fns == {"getTracesEndpoint", "getMetricsEndpoint", "getTracesHeaders",
        "getMetricsHeaders", "setupTracing", "setupMetrics"}

\* the result of a call, by callee; called is FALSE before the first call
Result(called, constructed, protocol, endpoint, insecure, headers) ==
    [called |-> called, constructed |-> constructed, protocol |-> protocol,
     endpoint |-> endpoint, insecure |-> insecure, headers |-> headers]

NoResult == Result(FALSE, FALSE, <<>>, <<>>, FALSE, EmptyMap)

NotRegistered == [registered |-> FALSE, options |-> <<>>]
Registered(options) == [registered |-> TRUE, options |-> options]

\* the state before newConfig is called with the options of list, in the
\* environment env, the vendor hook being hook and the process-wide state g
StartWith(env, list, hook, g) ==
    /\ environ = env
    /\ opts = list
    /\ SetVendorOptions = hook
    /\ hostname = <<"myhost">>
    /\ DefaultExporterEndpoint = <<"localhost">>
    /\ defLogger = LoggerAfterBuilding(list, DefaultLoggerObj)
    /\ defaultLoggerLevel = <<"info">>
    /\ c = NoConfig
    /\ err = <<>>
    /\ pc = "start"
    /\ calls = 0
    /\ ret = [f \in Fns |-> NoResult]
    /\ prev = [c |-> NoConfig, ret |-> [f \in Fns |-> NoResult], callee |-> "none",
               g |-> g]
    /\ otel = [g EXCEPT !.loggers =
                   LET built == SelectSeq(list, LAMBDA o : o.name = "WithLogger")
                   IN  [i \in 1..Len(built) |-> built[i].value]]

\* the same, no validation hook being set
Start(env, list, hook) == StartWith(env, list, hook, NoGlobals)

newConfigCall ==
    /\ pc = "start"
    /\ LET r == newConfig(opts, environ, hostname, SetVendorOptions,
                          DefaultExporterEndpoint, defLogger, defaultLoggerLevel)
       IN  /\ c' = r.c
           /\ err' = r.err
           /\ defLogger' = r.defLogger
           /\ defaultLoggerLevel' = r.level
           /\ otel' = [otel EXCEPT !.fatals = @ \o FatalsOf(r)]
           /\ pc' = IF r.exited THEN "exited"
                    ELSE IF r.err # <<>> THEN "failed" ELSE "configured"
    /\ UNCHANGED <<environ, hostname, SetVendorOptions, DefaultExporterEndpoint, opts,
                   calls, ret, prev>>

\* a call of callee on c that leaves the Config c1 and returns result
Called(callee, c1, result) ==
    /\ pc = "configured"
    /\ calls < MaxCalls
    /\ calls' = calls + 1
    /\ prev' = [c |-> c, ret |-> ret, callee |-> callee, g |-> otel]
    /\ c' = c1
    /\ ret' = [ret EXCEPT ![callee] = result]
    /\ UNCHANGED <<environ, hostname, SetVendorOptions, DefaultExporterEndpoint,
                   defLogger, defaultLoggerLevel, opts, err, pc, otel>>

getTracesEndpointCall ==
    LET r == getTracesEndpoint(c)
    IN  Called("getTracesEndpoint", r.c,
               Result(TRUE, FALSE, <<>>, r.endpoint, r.insecure, EmptyMap))

getMetricsEndpointCall ==
    LET r == getMetricsEndpoint(c)
    IN  Called("getMetricsEndpoint", r.c,
               Result(TRUE, FALSE, <<>>, r.endpoint, r.insecure, EmptyMap))

getTracesHeadersCall ==
    Called("getTracesHeaders", c,
           Result(TRUE, FALSE, <<>>, <<>>, FALSE, getTracesHeaders(c)))

getMetricsHeadersCall ==
    Called("getMetricsHeaders", c,
           Result(TRUE, FALSE, <<>>, <<>>, FALSE, getMetricsHeaders(c)))

\* a call of a setup function that ends as r says
SetUp(callee, r) ==
    Called(callee, r.c,
           Result(TRUE, r.constructed, r.protocol, r.endpoint, r.insecure, r.headers))

setupTracingCall == SetUp("setupTracing", setupTracing(c))

setupMetricsCall == SetUp("setupMetrics", setupMetrics(c))

\* what a call of ConfigureOpenTelemetry leaves: n is what newConfig
\* returned (kept in prev, with the process-wide state before the call) and r
\* what ConfigureOpenTelemetry returned
Returns(n, r) ==
    /\ c' = r.c
    /\ err' = r.err
    /\ otel' = r.g
    /\ defLogger' = n.defLogger
    /\ defaultLoggerLevel' = n.level
    /\ pc' = IF r.exited THEN "exited" ELSE "returned"
    /\ prev' = [c |-> n.c, ret |-> ret, callee |-> "ConfigureOpenTelemetry", g |-> otel]
    /\ UNCHANGED <<environ, hostname, SetVendorOptions, DefaultExporterEndpoint, opts,
                   calls, ret>>

ConfigureOpenTelemetryCall ==
    /\ pc = "start"
    /\ LET n == newConfig(opts, environ, hostname, SetVendorOptions,
                          DefaultExporterEndpoint, defLogger, defaultLoggerLevel)
       IN  Returns(n, ConfigureOpenTelemetry(n, otel))

\* a call of the shutdown function ConfigureOpenTelemetry returned
ShutdownCall ==
    /\ pc = "returned"
    /\ otel.shutdown # "nil"
    /\ otel.shutdownCalls < MaxCalls
    /\ \E failing \in SUBSET {f \in {"trace", "metric"} :
                                \E i \in 1..Len(otel.shutdownFuncs) :
                                    otel.shutdownFuncs[i] = f} :
         LET s == Shutdown(c, otel, failing)
         IN  /\ otel' = s.g
             /\ pc' = IF s.exited THEN "exited" ELSE "returned"
    /\ UNCHANGED <<environ, hostname, SetVendorOptions, DefaultExporterEndpoint,
                   defLogger, defaultLoggerLevel, opts, c, err, calls, ret, prev>>

\* a direct call of pipelines.NewTracePipeline with the PipelineConfig given
NewTracePipelineCall ==
    /\ pc = "start"
    /\ otel.pipelineConfig.given
    /\ LET t == NewTracePipeline(otel.pipelineConfig.c, otel)
       IN  /\ otel' = [t.g EXCEPT !.shutdown = t.shutdown]
           /\ err' = t.err
    /\ pc' = "returned"
    /\ UNCHANGED <<environ, hostname, SetVendorOptions, DefaultExporterEndpoint,
                   defLogger, defaultLoggerLevel, opts, c, calls, ret, prev>>

\* a direct call of pipelines.NewMetricsPipeline with the PipelineConfig given
NewMetricsPipelineCall ==
    /\ pc = "start"
    /\ otel.pipelineConfig.given
    /\ LET mp == NewMetricsPipeline(otel.pipelineConfig.c, otel)
       IN  /\ otel' = [mp.g EXCEPT !.shutdown = mp.shutdown]
           /\ err' = mp.err
    /\ pc' = "returned from NewMetricsPipeline"
    /\ UNCHANGED <<environ, hostname, SetVendorOptions, DefaultExporterEndpoint,
                   defLogger, defaultLoggerLevel, opts, c, calls, ret, prev>>

\* no variable of the environment is set
EmptyEnv == [k \in EnvNames |-> Unset]

\* the lists holding no option or one option name(v), v in values
Optional(name, values) == {<<>>} \cup {<<Opt(name, v)>> : v \in values}

----------------------------------------------------------------------------
(* endpoint resolution: the callers' endpoints *)

\* An endpoint text is scheme, host and port part: no scheme, "http://" or
\* "https://"; the host h or none; no port, a lone ":" or ":1234".
EndpointShapes ==
    [scheme : {<<>>, HttpScheme, HttpsScheme}, host : {<<"h">>},
     port : {<<>>, <<":">>, <<":", "1234">>}]
    \cup [scheme : {HttpScheme, HttpsScheme}, host : {<<>>}, port : {<<>>}]

Render(shape) == shape.scheme \o shape.host \o shape.port

Endpoints == {Render(shape) : shape \in EndpointShapes}

Signals == {"Traces", "Metrics"}

\* the options of a caller that configures the generic endpoint and one signal
EndpointOptions ==
    { ge \o gi \o gp \o se \o si \o sp :
        ge \in Optional("WithExporterEndpoint", Endpoints \cup {<<>>}),
        gi \in Optional("WithExporterInsecure", {TRUE}),
        gp \in Optional("WithExporterProtocol", {ProtocolHTTPProto}),
        se \in UNION {Optional("With" \o sig \o "ExporterEndpoint", Endpoints) :
                        sig \in Signals},
        si \in UNION {Optional("With" \o sig \o "ExporterInsecure", {TRUE}) :
                        sig \in Signals},
        sp \in UNION {Optional("With" \o sig \o "ExporterProtocol",
                               {ProtocolGRPC, ProtocolHTTPProto}) : sig \in Signals} }

InitEndpoint == \E list \in EndpointOptions : Start(EmptyEnv, list, NotRegistered)

NextEndpoint == newConfigCall \/ getTracesEndpointCall \/ getMetricsEndpointCall

SpecEndpoint == InitEndpoint /\ [][NextEndpoint]_vars

\* the options of a caller that configures the generic endpoint and protocol,
\* the endpoint of one signal, and may disable one signal
SetupOptions ==
    { ge \o gp \o se \o en :
        ge \in Optional("WithExporterEndpoint", Endpoints \cup {<<>>}),
        gp \in Optional("WithExporterProtocol", {ProtocolHTTPProto}),
        se \in UNION {Optional("With" \o sig \o "ExporterEndpoint", Endpoints) :
                        sig \in Signals},
        en \in UNION {Optional("With" \o sig \o "Enabled", {FALSE}) : sig \in Signals} }

InitSetup == \E list \in SetupOptions : Start(EmptyEnv, list, NotRegistered)

NextSetup == newConfigCall \/ setupTracingCall \/ setupMetricsCall

SpecSetup == InitSetup /\ [][NextSetup]_vars

----------------------------------------------------------------------------
(* ConfigureOpenTelemetry: the callers' configurations *)

\* the options of a caller that registers shutdown functions, a logger, a
\* resource option (of another schema URL, or failing) and propagators, sets
\* the fields of two boolean variables and a reporting period of zero
ConfigureOptions ==
    { lg \o sh \o ro \o pr \o te \o gi \o rp :
        lg \in Optional("WithLogger", {"l1"}),
        sh \in {<<>>,
                <<Opt("WithShutdown", [name |-> "f1", fails |-> FALSE])>>,
                <<Opt("WithShutdown", [name |-> "f1", fails |-> TRUE]),
                  Opt("WithShutdown", [name |-> "f2", fails |-> FALSE])>>,
                <<Opt("WithShutdown", [name |-> "f1", fails |-> FALSE]),
                  Opt("WithShutdown", [name |-> "f2", fails |-> TRUE])>>},
        ro \in Optional("WithResourceOption",
                        {ResourceOption(<<"otherSchemaURL">>, EmptyMap, FALSE),
                         ResourceOption(<<>>, EmptyMap, TRUE)}),
        pr \in Optional("WithPropagators", {Slice(<< <<"invalid">> >>)}),
        te \in Optional("WithTracesEnabled", {FALSE}),
        gi \in Optional("WithExporterInsecure", {TRUE}),
        rp \in Optional("WithMetricsReportingPeriod", {0}) }

\* such a caller in an environment with no variable, or with a boolean
\* variable holding text that is no boolean; ValidateConfig is nil, passes or
\* fails
InitConfigure ==
    \E env \in {EmptyEnv,
                [EmptyEnv EXCEPT !["OTEL_TRACES_ENABLED"] = SetTo(<<"x">>)],
                [EmptyEnv EXCEPT !["OTEL_EXPORTER_OTLP_INSECURE"] = SetTo(<<"x">>)]},
       list \in ConfigureOptions,
       validate \in {"nil", "passes", "fails"} :
      StartWith(env, list, NotRegistered, [NoGlobals EXCEPT !.ValidateConfig = validate])

NextConfigure == ConfigureOpenTelemetryCall \/ ShutdownCall

SpecConfigure == InitConfigure /\ [][NextConfigure]_vars

\* the options of a caller that configures the signals: enablement, the generic
\* endpoint and protocol, the metric protocol, the reporting period, propagators
PipelineOptions ==
    { te \o me \o ge \o gp \o mp \o rp \o pr :
        te \in Optional("WithTracesEnabled", {FALSE}),
        me \in Optional("WithMetricsEnabled", {FALSE}),
        ge \in Optional("WithExporterEndpoint", {<<>>, HttpScheme \o <<"h">>}),
        gp \in Optional("WithExporterProtocol",
                        {ProtocolHTTPProto, ProtocolHTTPJSON, <<"foo">>}),
        mp \in Optional("WithMetricsExporterProtocol", {ProtocolHTTPJSON}),
        rp \in Optional("WithMetricsReportingPeriod", {0, -1, 90}),
        pr \in Optional("WithPropagators",
                        {Slice(<<>>), Slice(<< <<"invalid">> >>),
                         Slice(<< <<"invalid">>, <<"b3">> >>)}) }

InitPipelines ==
    \E env \in {EmptyEnv,
                [EmptyEnv EXCEPT !["OTEL_EXPORTER_OTLP_METRICS_PERIOD"] =
                                     SetTo(<<"300million">>)]},
       list \in PipelineOptions :
      Start(env, list, NotRegistered)

\* such a caller calls ConfigureOpenTelemetry and the shutdown function, or
\* newConfig and the resolvers
NextPipelines ==
    \/ ConfigureOpenTelemetryCall
    \/ ShutdownCall
    \/ newConfigCall
    \/ getTracesEndpointCall
    \/ getMetricsEndpointCall

SpecPipelines == InitPipelines /\ [][NextPipelines]_vars

\* a direct caller of NewTracePipeline or NewMetricsPipeline and its
\* PipelineConfig
InitTracePipeline ==
    \E p \in [ Protocol : {ProtocolGRPC, ProtocolHTTPProto, ProtocolHTTPJSON, <<"foo">>},
               Endpoint : {<<"h", ":", "4317">>}, Insecure : {FALSE},
               Headers : {EmptyMap}, Resource : {Res(<<>>, EmptyMap)},
               Propagators : {<<>>, << <<"invalid">> >>,
                              << <<"tracecontext">>, <<"baggage">> >>,
                              << <<"invalid">>, <<"b3">> >>},
               SpanProcessors : {<<>>, <<"sp1">>, <<"sp1", "sp2">>},
               Sampler : {"AlwaysSample"}, ReportingPeriod : {<<>>, <<"0s">>},
               DisableDefaultSpanProcessor : BOOLEAN ] :
      StartWith(EmptyEnv, <<>>, NotRegistered,
                [NoGlobals EXCEPT !.pipelineConfig = [given |-> TRUE, c |-> p]])

SpecTracePipeline ==
    InitTracePipeline /\ [][NewTracePipelineCall \/ NewMetricsPipelineCall]_vars

\* a caller builds the options lg and ll (WithLogger stores its logger in
\* defLogger when the option is built) and passes all of them or none to its
\* next call of newConfig or ConfigureOpenTelemetry
BuildOptionsCall ==
    /\ pc \in {"start", "configured", "failed", "returned"}
    /\ calls + 1 < MaxCalls
    /\ \E lg \in Optional("WithLogger", {"l1", "l2"}),
          ll \in Optional("WithLogLevel", {<<"debug">>}),
          passed \in BOOLEAN :
         /\ opts' = IF passed THEN lg \o ll ELSE <<>>
         /\ defLogger' = LoggerAfterBuilding(lg \o ll, defLogger)
         /\ otel' = [otel EXCEPT !.loggers = @ \o [i \in 1..Len(lg) |-> lg[i].value]]
    /\ calls' = calls + 1
    /\ pc' = "start"
    /\ UNCHANGED <<environ, hostname, SetVendorOptions, DefaultExporterEndpoint,
                   defaultLoggerLevel, c, err, ret, prev>>

\* a caller that sets the log level and a logger, by options and by
\* OTEL_LOG_LEVEL, and the endpoints and protocol of the signals; it calls
\* newConfig or ConfigureOpenTelemetry, builds further options and calls again
SpecLogger ==
    /\ \E env \in {EmptyEnv,
                    [EmptyEnv EXCEPT !["OTEL_LOG_LEVEL"] = SetTo(<<"debug">>)],
                    [EmptyEnv EXCEPT !["OTEL_LOG_LEVEL"] = SetTo(<<"info">>)],
                    [EmptyEnv EXCEPT !["OTEL_TRACES_ENABLED"] = SetTo(<<"x">>)]},
          ll \in Optional("WithLogLevel", {<<"debug">>, <<"info">>}),
          lg \in Optional("WithLogger", {"l1"}),
          gp \in Optional("WithExporterProtocol", {ProtocolHTTPProto}),
          te \in Optional("WithTracesExporterEndpoint", {<<"t">>}),
          gi \in Optional("WithExporterInsecure", {TRUE}) :
         Start(env, ll \o lg \o gp \o te \o gi, NotRegistered)
    /\ [][BuildOptionsCall \/ newConfigCall \/ ConfigureOpenTelemetryCall]_vars

----------------------------------------------------------------------------
(* claims about endpoint resolution *)

\* the shapes a configured endpoint text may have: the callers' shapes and the
\* default endpoint
KnownShapes ==
    EndpointShapes \cup {[scheme |-> <<>>, host |-> <<"localhost">>, port |-> <<>>]}

\* the endpoint carries a port: a lone trailing colon is no port
HasPort(shape) == shape.port \notin {<<>>, <<":">>}

DefaultPortOf(protocol) ==
    IF protocol = ProtocolGRPC THEN GRPCDefaultPort ELSE HTTPDefaultPort

\* the protocol a signal resolves to in the Config cfg
ResolvedProtocol(cfg, sig) ==
    IF cfg[sig \o "ExporterProtocol"] # <<>> THEN cfg[sig \o "ExporterProtocol"]
    ELSE cfg.ExporterProtocol

\* the endpoint a signal is configured with in cfg: its own, else the generic one
ConfiguredEndpoint(cfg, sig) ==
    IF cfg[sig \o "ExporterEndpoint"] # <<>> THEN cfg[sig \o "ExporterEndpoint"]
    ELSE cfg.ExporterEndpoint

\* the latest call was get<sig>Endpoint, on the Config prev.c
JustResolved(sig) == pc = "configured" /\ prev.callee = "get" \o sig \o "Endpoint"

\* C4: a signal whose own endpoint is empty resolves to the generic endpoint
\* and the generic insecure flag: the result keeps the generic host (and the
\* scheme unless the protocol is grpc), keeps the generic port when there is
\* one, and gets the protocol's default port when the generic endpoint is a
\* bare host; with both endpoints empty the result is ("", false) and the
\* Config is unchanged.
C4_FallbackToGeneric ==
    \A sig \in Signals :
      (JustResolved(sig) /\ prev.c[sig \o "ExporterEndpoint"] = <<>>) =>
        LET r == ret["get" \o sig \o "Endpoint"]
            protocol == ResolvedProtocol(prev.c, sig)
        IN  IF prev.c.ExporterEndpoint = <<>>
            THEN r.endpoint = <<>> /\ r.insecure = FALSE /\ c = prev.c
            ELSE /\ r.insecure = prev.c.ExporterEndpointInsecure
                 /\ \A shape \in KnownShapes :
                      Render(shape) = prev.c.ExporterEndpoint =>
                        LET kept == (IF protocol = ProtocolGRPC THEN <<>> ELSE shape.scheme)
                                    \o shape.host
                        IN  /\ HasPrefix(r.endpoint, kept)
                            /\ HasPort(shape) => r.endpoint = kept \o shape.port
                            /\ (shape.scheme = <<>> /\ ~HasPort(shape)) =>
                                  r.endpoint = shape.host \o <<":">> \o DefaultPortOf(protocol)

\* C4 witness: the generic endpoint "h", insecure, resolved for traces under grpc
C4_Witness ==
    /\ JustResolved("Traces")
    /\ prev.c.TracesExporterEndpoint = <<>>
    /\ prev.c.ExporterEndpoint = <<"h">>
    /\ prev.c.ExporterEndpointInsecure
    /\ ~prev.c.TracesExporterEndpointInsecure
    /\ ret["getTracesEndpoint"].endpoint = <<"h", ":", "4317">>
    /\ ret["getTracesEndpoint"].insecure

\* the latest call was setup<sig>, on the Config prev.c
JustSetUp(sig) ==
    pc = "configured" /\ prev.callee = (IF sig = "Traces" THEN "setupTracing" ELSE "setupMetrics")

SetupResult(sig) == ret[IF sig = "Traces" THEN "setupTracing" ELSE "setupMetrics"]

\* C5: the endpoint handed to a pipeline constructor is host:port, the port
\* being the configured one, else 4317 under grpc (443 for an https:// endpoint,
\* see C6) and 4318 under any other protocol; stated for the endpoints that
\* are a host with or without a scheme and with or without a port.
C5_HandedHostPort ==
    \A sig \in Signals :
      (JustSetUp(sig) /\ SetupResult(sig).constructed) =>
        \A shape \in KnownShapes :
          (/\ Render(shape) = ConfiguredEndpoint(prev.c, sig)
           /\ shape.host # <<>>
           /\ shape.port # <<":">>) =>
            LET protocol == ResolvedProtocol(prev.c, sig)
                port == IF HasPort(shape) THEN Tail(shape.port)
                        ELSE IF protocol = ProtocolGRPC /\ shape.scheme = HttpsScheme
                        THEN SSLDefaultPort
                        ELSE DefaultPortOf(protocol)
            IN  SetupResult(sig).endpoint = shape.host \o <<":">> \o port

\* C6: under grpc an endpoint with an http:// or https:// prefix resolves to a
\* text without the prefix: https://H to H:443, https://H:P and http://H:P to
\* H:P, http://H to H:4317.
C6_GrpcSchemeStripped ==
    \A sig \in Signals :
      (JustResolved(sig) /\ ResolvedProtocol(prev.c, sig) = ProtocolGRPC) =>
        \A shape \in KnownShapes :
          (Render(shape) = ConfiguredEndpoint(prev.c, sig) /\ shape.scheme # <<>>) =>
            LET r == ret["get" \o sig \o "Endpoint"]
            IN  /\ ~HasPrefix(r.endpoint, HttpScheme)
                /\ ~HasPrefix(r.endpoint, HttpsScheme)
                /\ (shape.host # <<>> /\ HasPort(shape)) =>
                      r.endpoint = shape.host \o shape.port
                /\ (shape.host # <<>> /\ shape.port = <<>> /\ shape.scheme = HttpsScheme) =>
                      r.endpoint = shape.host \o <<":">> \o SSLDefaultPort
                /\ (shape.host # <<>> /\ shape.port = <<>> /\ shape.scheme = HttpScheme) =>
                      r.endpoint = shape.host \o <<":">> \o GRPCDefaultPort

\* C6 witness: the generic endpoint https://h resolved for metrics under grpc
C6_Witness ==
    /\ JustResolved("Metrics")
    /\ prev.c.MetricsExporterEndpoint = <<>>
    /\ prev.c.ExporterEndpoint = HttpsScheme \o <<"h">>
    /\ ret["getMetricsEndpoint"].endpoint = <<"h", ":", "443">>
    /\ c.MetricsExporterEndpoint = <<"h", ":", "443">>

\* C7: a second call of a resolver returns what the first call returned and
\* leaves the Config as it found it.
C7_ResolutionIdempotent ==
    \A sig \in Signals :
      (JustResolved(sig) /\ prev.ret["get" \o sig \o "Endpoint"].called) =>
        /\ ret["get" \o sig \o "Endpoint"] = prev.ret["get" \o sig \o "Endpoint"]
        /\ c = prev.c

----------------------------------------------------------------------------
(* exporter headers: the callers' header maps *)

HeaderKeys == {<<"k1">>, <<"k2">>}

HeaderValues == {<<"a">>, <<"b">>}

\* the maps from some of the keys to the values
HeaderMaps ==
    UNION {[keys -> HeaderValues] : keys \in SUBSET HeaderKeys}

\* the environments that set none, one or both of the generic and the traces
\* headers
HeaderEnvs ==
    { [k \in EnvNames |->
         CASE k = "OTEL_EXPORTER_OTLP_HEADERS" -> g
           [] k = "OTEL_EXPORTER_OTLP_TRACES_HEADERS" -> t
           [] OTHER -> Unset] :
        g \in {Unset, SetTo(<<"k2", "=", "e">>)},
        t \in {Unset, SetTo(<<"k1", "=", "e">>)} }

HeaderOptions ==
    { g \o t \o m :
        g \in Optional("WithHeaders", HeaderMaps),
        t \in Optional("WithTracesHeaders", HeaderMaps),
        m \in Optional("WithMetricsHeaders", HeaderMaps) }

InitHeaders ==
    \E env \in HeaderEnvs, list \in HeaderOptions : Start(env, list, NotRegistered)

NextHeaders == newConfigCall \/ getTracesHeadersCall \/ getMetricsHeadersCall

SpecHeaders == InitHeaders /\ [][NextHeaders]_vars

\* C8: the headers a signal's getter returns are the union of the generic and
\* the signal's headers, the signal's value winning on a key of both, and the
\* call changes neither map of the Config.
C8_HeadersUnion ==
    \A sig \in Signals :
      (pc = "configured" /\ prev.callee = "get" \o sig \o "Headers") =>
        LET headers == ret["get" \o sig \o "Headers"].headers
            generic == prev.c.Headers
            own == prev.c[sig \o "Headers"]
        IN  /\ DOMAIN headers = DOMAIN generic \cup DOMAIN own
            /\ \A k \in DOMAIN own : headers[k] = own[k]
            /\ \A k \in DOMAIN generic \ DOMAIN own : headers[k] = generic[k]
            /\ c.Headers = generic
            /\ c[sig \o "Headers"] = own

\* C8 witness: k1 is a generic and a traces header, k2 a generic header only
C8_Witness ==
    /\ pc = "configured"
    /\ prev.callee = "getTracesHeaders"
    /\ c.Headers = (<<"k1">> :> <<"a">>) @@ (<<"k2">> :> <<"a">>)
    /\ c.TracesHeaders = (<<"k1">> :> <<"b">>)
    /\ ret["getTracesHeaders"].headers = (<<"k1">> :> <<"b">>) @@ (<<"k2">> :> <<"a">>)

----------------------------------------------------------------------------
(* the resource: the callers' attributes and the environment's *)

\* the attribute keys the default steps of newResource produce, and one they
\* do not
ResourceKeys ==
    {ServiceNameKey, ServiceVersionKey, HostNameKey, TelemetrySDKNameKey,
     TelemetrySDKLanguageKey, TelemetrySDKVersionKey, <<"attr1">>}

\* the texts of OTEL_RESOURCE_ATTRIBUTES that set the key k: to a value, to the
\* empty value, with blanks around key and value, after another key, and twice
AttributeTexts(k) ==
    { k \o <<"=", "E">>,
      k \o <<"=">>,
      <<" ">> \o k \o <<" ", "=", " ", "E", " ">>,
      <<"attr2", "=", "x", ",">> \o k \o <<"=", "E">>,
      k \o <<"=", "E", ",">> \o k \o <<"=", "F">> }

ResourceEnvs(k) ==
    { [n \in EnvNames |->
         CASE n = "OTEL_RESOURCE_ATTRIBUTES" -> ra
           [] n = "OTEL_SERVICE_NAME" -> sn
           [] n = "OTEL_SERVICE_VERSION" -> sv
           [] OTHER -> Unset] :
        ra \in {Unset, SetTo(<<>>)} \cup {SetTo(t) : t \in AttributeTexts(k)},
        sn \in {Unset, SetTo(<<"envsvc">>)},
        sv \in {Unset, SetTo(<<"envver">>), SetTo(<<" ">>), SetTo(<<" ", "envver", " ">>)} }

\* the options of a caller that supplies the key k by every route
ResourceOptionLists(k) ==
    { ra \o ro \o sn \o sv :
        ra \in Optional("WithResourceAttributes", {k :> <<"ra">>, k :> <<>>}),
        ro \in {<<>>,
                <<Opt("WithResourceOption", WithAttributes(k :> <<"ro">>))>>,
                <<Opt("WithResourceOption", WithAttributes(k :> <<"ro">>)),
                  Opt("WithResourceOption", WithAttributes(k :> <<"ro2">>))>>},
        sn \in Optional("WithServiceName", {<<"svc">>}),
        sv \in Optional("WithServiceVersion", {<<"ver">>, <<>>}) }

InitResource ==
    \E k \in ResourceKeys :
      \E env \in ResourceEnvs(k), list \in ResourceOptionLists(k) :
        Start(env, list, NotRegistered)

NextResource == newConfigCall

SpecResource == InitResource /\ [][NextResource]_vars

\* the attributes OTEL_RESOURCE_ATTRIBUTES sets: none when unset or empty
EnvAttributes ==
    IF environ["OTEL_RESOURCE_ATTRIBUTES"].val = <<>> THEN EmptyMap
    ELSE ParseMap(environ["OTEL_RESOURCE_ATTRIBUTES"].val).v

\* newConfig returned a Config
Built == pc = "configured"

EnvSets(k) ==
    \/ k \in DOMAIN EnvAttributes
    \/ k = ServiceNameKey /\ TrimSpace(environ["OTEL_SERVICE_NAME"].val) # <<>>
    \/ k = ServiceVersionKey /\ TrimSpace(environ["OTEL_SERVICE_VERSION"].val) # <<>>

\* C10: a key supplied by a resource option of the caller, and not set by the
\* environment, has in the resource the value of the last such option, also
\* when a default step (service name, service version, host, SDK attributes)
\* produces the key.
C10_ResourceOptionOverrides ==
    Built =>
      \A k \in ResourceKeys :
        LET supplying == {i \in 1..Len(c.ResourceOptions) :
                             k \in DOMAIN c.ResourceOptions[i].attrs}
        IN  (supplying # {} /\ ~EnvSets(k)) =>
              LET last == CHOOSE i \in supplying : \A j \in supplying : j <= i
              IN  c.Resource.attrs[k] = c.ResourceOptions[last].attrs[k]

\* C11: a key supplied by several of the code's resource options and
\* resource-attributes map, and not set by the environment, has in the
\* resource the value of the last-registered resource option that supplies it.
C11_LastResourceOptionWins ==
    Built =>
      \A k \in ResourceKeys :
        LET supplying == {i \in 1..Len(c.ResourceOptions) :
                             k \in DOMAIN c.ResourceOptions[i].attrs}
            mapped == k \in DOMAIN NonEmptyAttributes(c.ResourceAttributes)
        IN  (/\ ~EnvSets(k)
             /\ supplying # {}
             /\ Cardinality(supplying) > 1 \/ mapped) =>
              LET last == CHOOSE i \in supplying : \A j \in supplying : j <= i
              IN  c.Resource.attrs[k] = c.ResourceOptions[last].attrs[k]

----------------------------------------------------------------------------
(* claims about ConfigureOpenTelemetry and Shutdown *)

\* C13: when a boolean variable of the environment holds text that is no
\* boolean and the caller gave a logger, ConfigureOpenTelemetry has reported
\* to the Fatalf of that logger, returns an "environment error", and has built
\* no resource, installed no error handler and constructed no pipeline.
C13_MalformedBooleanIsFatal ==
    LET malformed == \E i \in 1..Len(EnvTags) :
                        /\ EnvTags[i].kind \in {"bool", "boolptr"}
                        /\ environ[EnvTags[i].key].set
                        /\ ~ParseBool(environ[EnvTags[i].key].val).ok
        loggers == SelectSeq(opts, LAMBDA o : o.name = "WithLogger")
    IN  (pc = "returned" /\ malformed /\ loggers # <<>>) =>
          /\ otel.fatals = <<[logger |-> loggers[Len(loggers)].value,
                               message |-> "environment error", call |-> 0]>>
          /\ \E i \in 1..Len(err) : err[i] = "environment error"
          /\ otel.shutdown = "nil"
          /\ c.Resource = NoConfig.Resource
          /\ otel.errorHandler = NoGlobals.errorHandler
          /\ otel.built = <<>>

\* C14: when a resource option of the caller fails or carries another schema
\* URL, ConfigureOpenTelemetry returns the resource error (naming a schema URL
\* conflict), has constructed no pipeline, returns no shutdown function, and
\* no WithShutdown function is ever invoked.
C14_ResourceFailureStops ==
    LET failing == \E i \in 1..Len(opts) :
                       /\ opts[i].name = "WithResourceOption"
                       /\ opts[i].value.fails
        conflicting == \E i \in 1..Len(opts) :
                           /\ opts[i].name = "WithResourceOption"
                           /\ ~opts[i].value.fails
                           /\ opts[i].value.schemaURL \notin {<<>>, SchemaURL}
    IN  (/\ pc = "returned"
         /\ failing \/ conflicting
         /\ \A i \in 1..Len(err) : err[i] # "environment error") =>
          /\ err # <<>>
          /\ conflicting => \E i \in 1..Len(err) : err[i] = "conflicting Schema URL"
          /\ otel.built = <<>>
          /\ ~otel.tracerProvider.set /\ ~otel.meterProvider.set
          /\ otel.shutdown = "nil"
          /\ otel.shutdownFuncs = <<>>
          /\ otel.invoked = <<>>

\* C14 witness: a caller with a WithShutdown function and a resource option of
\* another schema URL got the conflict back
C14_Witness ==
    /\ pc = "returned"
    /\ \E i \in 1..Len(opts) : opts[i].name = "WithShutdown"
    /\ \E i \in 1..Len(opts) :
          opts[i].name = "WithResourceOption" /\ opts[i].value.schemaURL # <<>>
    /\ err = <<"conflicting Schema URL">>

\* ConfigureOpenTelemetry got a Config from newConfig, the validation passed
\* and the setup functions ran
SetUpRan == pc = "returned" /\ (err = <<>> \/ Head(err) = "setup error")

\* in the Config newConfig returned, the signal is enabled and has an endpoint
SignalOn(sig) ==
    /\ Enabled(prev.c[sig \o "Enabled"])
    /\ prev.c[sig \o "ExporterEndpoint"] # <<>> \/ prev.c.ExporterEndpoint # <<>>

\* the propagator list of the Config holds no supported identifier
NoSupportedPropagator ==
    \A i \in 1..Len(prev.c.Propagators.elems) :
        prev.c.Propagators.elems[i] \notin
            {<<"b3">>, <<"baggage">>, <<"tracecontext">>, <<"ottrace">>}

\* the error of ConfigureOpenTelemetry holds the message
Reports(message) == \E i \in 1..Len(err) : err[i] = message

\* C15 as stated: with no supported identifier in the propagator list,
\* ConfigureOpenTelemetry returns the error naming the supported identifiers
\* and leaves the process-wide propagator alone, whatever the trace signal.
C15_UnsupportedPropagatorsRejected ==
    (SetUpRan /\ NoSupportedPropagator) =>
      /\ Reports("Supported options: b3,baggage,tracecontext,ottrace")
      /\ ~otel.textMapPropagator.set

\* C15: with no supported identifier in the propagator list, the process-wide
\* propagator is left alone; when the trace signal is enabled, has an endpoint
\* and its protocol is grpc or http/protobuf, ConfigureOpenTelemetry returns
\* the error naming the supported identifiers and installs no tracer provider;
\* when the trace signal is disabled or has no endpoint, it returns no such
\* error.
C15_UnsupportedPropagatorsRejectedWhenTracing ==
    (SetUpRan /\ NoSupportedPropagator) =>
      /\ ~otel.textMapPropagator.set
      /\ (/\ SignalOn("Traces")
          /\ ResolvedProtocol(prev.c, "Traces") \in {ProtocolGRPC, ProtocolHTTPProto}) =>
            /\ err = <<"setup error", "invalid configuration: unsupported propagators",
                       "Supported options: b3,baggage,tracecontext,ottrace">>
            /\ ~otel.tracerProvider.set
      /\ ~SignalOn("Traces") =>
            ~Reports("Supported options: b3,baggage,tracecontext,ottrace")

\* C15 witness: the list ["invalid"] was rejected with tracing on
C15_Witness ==
    /\ SetUpRan
    /\ SignalOn("Traces")
    /\ prev.c.Propagators = Slice(<< <<"invalid">> >>)
    /\ Reports("Supported options: b3,baggage,tracecontext,ottrace")

\* C16: a signal that is disabled or has no endpoint has no pipeline
\* constructor called and no shutdown callback registered, and its setup
\* function reports success (ConfigureOpenTelemetry succeeds or goes on to the
\* other signal's constructor); with both signals so, ConfigureOpenTelemetry
\* returns no error and a shutdown function that invokes no pipeline callback.
C16_DisabledSignalSkipped ==
    LET Has(list, x) == \E i \in 1..Len(list) : list[i] = x
    IN  SetUpRan =>
          /\ ~SignalOn("Traces") =>
                /\ ~Has(otel.called, "NewTracePipeline")
                /\ ~Has(otel.shutdownFuncs, "trace")
                /\ ~Has(otel.shutdownFuncs, "emptyShutdown")
                /\ ~otel.tracerProvider.set
                /\ err = <<>> \/ Has(otel.called, "NewMetricsPipeline")
          /\ ~SignalOn("Metrics") =>
                /\ ~Has(otel.called, "NewMetricsPipeline")
                /\ ~Has(otel.shutdownFuncs, "metric")
                /\ ~otel.meterProvider.set
                /\ err = <<>> \/ Has(otel.called, "NewTracePipeline")
          /\ (~SignalOn("Traces") /\ ~SignalOn("Metrics")) =>
                /\ err = <<>>
                /\ otel.shutdown # "nil"
                /\ otel.shutdownFuncs = <<>>
                /\ \A i \in 1..Len(otel.invoked) :
                      otel.invoked[i].name \notin {"trace", "metric", "emptyShutdown"}

\* C16 witness: both signals were disabled and the shutdown function has run
C16_Witness ==
    /\ SetUpRan
    /\ ~Enabled(prev.c.TracesEnabled) /\ ~Enabled(prev.c.MetricsEnabled)
    /\ prev.c.ExporterEndpoint # <<>>
    /\ otel.shutdownCalls > 0
    /\ otel.invoked = <<>>

\* C17: with a logger whose Fatalf returns, a call of the shutdown function
\* invokes every WithShutdown function in registration order, each with the
\* final Config, then every registered pipeline callback (trace before
\* metric), each exactly once; the error of each that fails goes to Fatalf, and
\* the ones after it are invoked all the same.
C17_ShutdownOrder ==
    LET hooks == c.ShutdownFunctions
        all == [i \in 1..Len(hooks) |-> hooks[i].name] \o otel.shutdownFuncs
        failed == SelectSeq(otel.invoked, LAMBDA f : f.failed)
        fatals == SelectSeq(otel.fatals, LAMBDA f : f.call = otel.shutdownCalls)
    IN  /\ SetUpRan => otel.shutdownFuncs \in {<<>>, <<"trace">>, <<"metric">>,
                                               <<"trace", "metric">>}
        /\ (otel.shutdownCalls > 0 /\ c.Logger # DefaultLoggerObj) =>
              /\ [i \in 1..Len(otel.invoked) |-> otel.invoked[i].name] = all
              /\ \A i \in 1..Len(hooks) :
                    /\ otel.invoked[i].arg = c.Resource
                    /\ otel.invoked[i].failed = hooks[i].fails
              /\ Len(fatals) = Len(failed)
              /\ \A i \in 1..Len(fatals) :
                    /\ fatals[i].logger = c.Logger
                    /\ fatals[i].message =
                          IF i <= Cardinality({j \in 1..Len(hooks) : hooks[j].fails})
                          THEN "failed to stop exporter while calling config shutdown"
                          ELSE "failed to stop exporter"

\* C17 witness: the first of two WithShutdown functions failed, the trace
\* callback failed too, and all four functions were invoked
C17_Witness ==
    /\ otel.shutdownCalls = 2
    /\ c.Logger = "l1"
    /\ Len(otel.invoked) = 4
    /\ otel.invoked[1].failed
    /\ otel.invoked[3] = [name |-> "trace", arg |-> Res(<<>>, EmptyMap), failed |-> TRUE]
    /\ otel.invoked[4].name = "metric"

\* the reporting period of the Config newConfig returned does not parse as a
\* duration, or is zero or negative
InvalidPeriod ==
    \/ ~ParseDuration(prev.c.MetricsReportingPeriod).ok
    \/ ParseDuration(prev.c.MetricsReportingPeriod).seconds <= 0

\* the trace setup reports success on the Config newConfig returned: the
\* signal is off, or its protocol and a propagator of its list are supported
TracingSucceeds ==
    \/ ~SignalOn("Traces")
    \/ /\ ResolvedProtocol(prev.c, "Traces") \in {ProtocolGRPC, ProtocolHTTPProto}
       /\ ~NoSupportedPropagator

\* C18 as stated: with the metric signal enabled, an endpoint and an invalid
\* reporting period, ConfigureOpenTelemetry returns "setup error: invalid
\* metric reporting period", installs no meter provider and registers no
\* metric shutdown callback.
C18_InvalidPeriodRejected ==
    (SetUpRan /\ SignalOn("Metrics") /\ InvalidPeriod) =>
      /\ Reports("setup error") /\ Reports("invalid metric reporting period")
      /\ ~otel.meterProvider.set
      /\ \A i \in 1..Len(otel.shutdownFuncs) : otel.shutdownFuncs[i] # "metric"

\* C18: with the metric signal enabled, an endpoint and a non-empty invalid
\* reporting period, ConfigureOpenTelemetry returns a setup error, installs no
\* meter provider and registers no metric shutdown callback; the error is
\* "setup error: invalid metric reporting period" when the trace setup
\* succeeds and the metric protocol is grpc or http/protobuf.
C18_InvalidPeriodRejectedAfterExporter ==
    (/\ SetUpRan /\ SignalOn("Metrics") /\ InvalidPeriod
     /\ prev.c.MetricsReportingPeriod # <<>>) =>
      /\ Reports("setup error")
      /\ ~otel.meterProvider.set
      /\ \A i \in 1..Len(otel.shutdownFuncs) : otel.shutdownFuncs[i] # "metric"
      /\ (/\ TracingSucceeds
          /\ ResolvedProtocol(prev.c, "Metrics") \in {ProtocolGRPC, ProtocolHTTPProto}) =>
            err = <<"setup error", "invalid metric reporting period">>

\* C18 witness: the period "0s" was rejected after the trace pipeline was set up
C18_Witness ==
    /\ SetUpRan
    /\ SignalOn("Metrics")
    /\ prev.c.MetricsReportingPeriod = <<"0s">>
    /\ otel.shutdownFuncs = <<"trace">>
    /\ err = <<"setup error", "invalid metric reporting period">>

\* C19 as stated: with the default span processor disabled, NewTracePipeline
\* fails with "must provide at least one span processor" before anything is
\* built or installed when no span processor is supplied, and succeeds without
\* creating an exporter when one is.
C19_DisabledDefaultProcessor ==
    (/\ pc = "returned" /\ otel.pipelineConfig.given
     /\ otel.pipelineConfig.c.DisableDefaultSpanProcessor) =>
      IF Len(otel.pipelineConfig.c.SpanProcessors) = 0
      THEN /\ err = <<"must provide at least one span processor if the default span processor is disabled">>
           /\ otel.built = <<>>
           /\ ~otel.tracerProvider.set /\ ~otel.textMapPropagator.set
      ELSE /\ err = <<>>
           /\ \A i \in 1..Len(otel.built) : otel.built[i] # "traceExporter"

\* C19: with the default span processor disabled, NewTracePipeline fails with
\* "must provide at least one span processor" before anything is built or
\* installed when no span processor is supplied; when one is, it creates no
\* exporter, and succeeds exactly if the propagator list holds a supported
\* identifier, the tracer provider then having the supplied processors only.
C19_DisabledDefaultProcessorAndPropagators ==
    (/\ pc = "returned" /\ otel.pipelineConfig.given
     /\ otel.pipelineConfig.c.DisableDefaultSpanProcessor) =>
      IF Len(otel.pipelineConfig.c.SpanProcessors) = 0
      THEN /\ err = <<"must provide at least one span processor if the default span processor is disabled">>
           /\ otel.built = <<>>
           /\ ~otel.tracerProvider.set /\ ~otel.textMapPropagator.set
      ELSE /\ \A i \in 1..Len(otel.built) : otel.built[i] # "traceExporter"
           /\ err = <<>> <=>
                 \E i \in 1..Len(otel.pipelineConfig.c.Propagators) :
                     otel.pipelineConfig.c.Propagators[i] \in
                         {<<"b3">>, <<"baggage">>, <<"tracecontext">>, <<"ottrace">>}
           /\ err = <<>> =>
                 /\ otel.tracerProvider.set
                 /\ otel.tracerProvider.processors = otel.pipelineConfig.c.SpanProcessors

\* C19 witness: with one span processor supplied and the default one disabled,
\* the tracer provider was installed and no exporter created
C19_Witness ==
    /\ pc = "returned" /\ otel.pipelineConfig.given
    /\ otel.pipelineConfig.c.DisableDefaultSpanProcessor
    /\ otel.pipelineConfig.c.SpanProcessors = <<"sp1">>
    /\ otel.tracerProvider.set
    /\ otel.built = <<"tracerProvider">>

\* C20: the resolvers return an endpoint under http/json and under an
\* unrecognized protocol, with port 4318 when the configured endpoint has
\* none; ConfigureOpenTelemetry then returns the constructor's error as a setup
\* error: "http/json is currently unsupported" or "is not a supported
\* protocol".
C20_ResolutionNeverFails ==
    \A sig \in Signals :
      LET protocol == ResolvedProtocol(prev.c, sig)
          endpoint == ConfiguredEndpoint(prev.c, sig)
      IN  protocol \notin {ProtocolGRPC, ProtocolHTTPProto} =>
            /\ (JustResolved(sig) /\ endpoint # <<>>) =>
                  /\ ret["get" \o sig \o "Endpoint"].endpoint # <<>>
                  /\ \A shape \in KnownShapes :
                        (Render(shape) = endpoint /\ shape.port = <<>>) =>
                          ret["get" \o sig \o "Endpoint"].endpoint =
                              endpoint \o <<":">> \o HTTPDefaultPort
            /\ (/\ SetUpRan /\ SignalOn(sig)
                /\ sig = "Metrics" => TracingSucceeds) =>
                  err = << "setup error",
                           IF sig = "Traces" THEN "failed to create span exporter"
                           ELSE "failed to create metric exporter",
                           IF protocol = ProtocolHTTPJSON
                           THEN "http/json is currently unsupported"
                           ELSE "is not a supported protocol" >>

----------------------------------------------------------------------------
(* claims about the logger, the debug output and the process-wide state *)

\* the Debugf calls of the ConfigureOpenTelemetry call that has just returned
NewDebugf == SubSeq(otel.debugf, Len(prev.g.debugf) + 1, Len(otel.debugf))

\* the pipeline constructors that call invoked, in order
NewCalled == SubSeq(otel.called, Len(prev.g.called) + 1, Len(otel.called))

\* ConfigureOpenTelemetry has just returned, newConfig gave it a Config, and
\* the log level of that Config is debug
Debugging ==
    /\ pc = "returned"
    /\ prev.callee = "ConfigureOpenTelemetry"
    /\ err = <<>> \/ Head(err) \in {"setup error", "validation error"}
    /\ prev.c.LogLevel = <<"debug">>

\* the constructor of the signal was invoked by that call
ConstructorCalled(sig) ==
    \E i \in 1..Len(NewCalled) :
        NewCalled[i] = (IF sig = "Traces" THEN "NewTracePipeline" ELSE "NewMetricsPipeline")

\* C21 as stated: under log level debug the serialized Config goes to Debugf
\* before a pipeline constructor is invoked, and the record shows the endpoint,
\* insecure flag and protocol of each signal that its pipeline is constructed
\* with.
C21_DebugShowsResolved ==
    Debugging =>
        /\ Len(NewDebugf) = 3
        /\ \A i \in 1..Len(NewDebugf) : NewDebugf[i].called = prev.g.called
        /\ \A sig \in {"Traces", "Metrics"} :
              ConstructorCalled(sig) =>
                  \A f \in {"ExporterEndpoint", "ExporterEndpointInsecure",
                            "ExporterProtocol"} :
                      NewDebugf[3].s[1][sig \o f] = c[sig \o f]

\* C21, amended: under log level debug the serialized Config goes to the
\* Debugf of the Config's logger before a pipeline constructor is invoked, and
\* the record shows every field as newConfig returned it: the fields of a
\* signal are the ones options and environment set, not yet resolved.
C21_DebugShowsUnresolved ==
    Debugging =>
        /\ Len(NewDebugf) = 3
        /\ \A i \in 1..Len(NewDebugf) :
              /\ NewDebugf[i].called = prev.g.called
              /\ NewDebugf[i].logger = prev.c.Logger
        /\ NewDebugf[3].text = "string(s)"
        /\ LET s == NewDebugf[3].s[1]
           IN  /\ DOMAIN s = DOMAIN prev.c \ {"Logger", "ShutdownFunctions",
                                             "errorHandler"}
               /\ \A f \in DOMAIN s : s[f] = prev.c[f]

\* C21 witness: both constructors were invoked after a debug record that shows
\* no trace endpoint, while the trace pipeline got one
C21_Witness ==
    /\ Debugging
    /\ NewCalled = <<"NewTracePipeline", "NewMetricsPipeline">>
    /\ NewDebugf[3].s[1].TracesExporterEndpoint = <<>>
    /\ c.TracesExporterEndpoint # <<>>

\* C23: the insecure flag of a signal follows the source of its endpoint: with
\* an endpoint of its own the signal resolves to its own flag, whatever the
\* generic flag; with none it resolves to the generic flag, which replaces its
\* own in the Config, provided there is a generic endpoint to fall back to.
C23_InsecureFollowsEndpoint ==
    \A sig \in Signals :
      JustResolved(sig) =>
        LET r == ret["get" \o sig \o "Endpoint"]
            own == prev.c[sig \o "ExporterEndpointInsecure"]
        IN  IF prev.c[sig \o "ExporterEndpoint"] # <<>>
            THEN /\ r.insecure = own
                 /\ c[sig \o "ExporterEndpointInsecure"] = own
            ELSE IF prev.c.ExporterEndpoint # <<>>
            THEN /\ r.insecure = prev.c.ExporterEndpointInsecure
                 /\ c[sig \o "ExporterEndpointInsecure"] = prev.c.ExporterEndpointInsecure
            ELSE ~r.insecure

\* C23 witness: a metric endpoint of its own, its flag never set, resolved as
\* secure under a generic flag that is set
C23_Witness ==
    /\ JustResolved("Metrics")
    /\ calls = 1
    /\ \E i \in 1..Len(opts) : opts[i].name = "WithMetricsExporterEndpoint"
    /\ \A i \in 1..Len(opts) : opts[i].name # "WithMetricsExporterInsecure"
    /\ prev.c.ExporterEndpointInsecure
    /\ ~ret["getMetricsEndpoint"].insecure

\* the logger passed to the most recent WithLogger call of the process, the
\* default logger when there was none
LatestLogger ==
    IF otel.loggers = <<>> THEN DefaultLoggerObj ELSE otel.loggers[Len(otel.loggers)]

\* a call of newConfig or ConfigureOpenTelemetry has just ended, no vendor hook
\* is registered, and no option of the caller was a logger option
CalledWithoutLogger ==
    /\ pc \in {"configured", "failed", "returned", "exited"}
    /\ otel.shutdownCalls = 0
    /\ ~SetVendorOptions.registered
    /\ \A i \in 1..Len(opts) : opts[i].name # "WithLogger"

\* C24: WithLogger replaces the process-wide default logger when it is called:
\* a newConfig that applies no logger option gives its Config the logger of
\* the most recent WithLogger call, applied to a Config or not, makes it the
\* sink of the Config's default error handler, and reports an environment
\* error to its Fatalf.
C24_LoggerCachedWhenBuilt ==
    CalledWithoutLogger =>
        /\ defLogger = LatestLogger
        /\ (pc \in {"configured", "returned"} /\ Head(err \o <<"none">>) # "environment error") =>
              /\ c.Logger = LatestLogger
              /\ c.errorHandler = [handler |-> "defaultHandler", logger |-> LatestLogger]
        /\ SetUpRan => otel.errorHandler = c.errorHandler
        /\ Head(err \o <<"none">>) = "environment error" =>
              /\ otel.fatals # <<>>
              /\ otel.fatals[Len(otel.fatals)].logger = LatestLogger
              /\ pc = "exited" <=> LatestLogger = DefaultLoggerObj

\* C24 witness: the logger l2 went to WithLogger after an earlier call, the
\* option was never passed, and the Config of the next newConfig holds l2
C24_Witness ==
    /\ pc = "configured"
    /\ calls = 1
    /\ opts = <<>>
    /\ otel.loggers # <<>>
    /\ LatestLogger = "l2"
    /\ c.Logger = "l2"
    /\ c.errorHandler.logger = "l2"

\* the endpoint, insecure and protocol fields of a signal
SignalFields(sig) ==
    {sig \o "ExporterEndpoint", sig \o "ExporterEndpointInsecure", sig \o "ExporterProtocol"}

\* the Config with the fields of a signal as no option had set them
WithoutSignal(cfg, sig) ==
    [cfg EXCEPT ![sig \o "ExporterEndpoint"] = <<>>,
                ![sig \o "ExporterEndpointInsecure"] = FALSE,
                ![sig \o "ExporterProtocol"] = <<>>]

\* C25: resolving the endpoint of a signal changes only the endpoint, insecure
\* and protocol fields of that signal; and what it returns and stores does not
\* depend on the fields of the other signal, as options set them or as an
\* earlier resolution of the other signal left them.
C25_ResolutionFrame ==
    \A sig \in Signals :
      JustResolved(sig) =>
        LET other == CHOOSE o \in Signals : o # sig
            r == ret["get" \o sig \o "Endpoint"]
            alone == IF sig = "Traces" THEN getTracesEndpoint(WithoutSignal(prev.c, other))
                     ELSE getMetricsEndpoint(WithoutSignal(prev.c, other))
        IN  /\ \A f \in DOMAIN c \ SignalFields(sig) : c[f] = prev.c[f]
            /\ r.endpoint = alone.endpoint
            /\ r.insecure = alone.insecure
            /\ \A f \in SignalFields(sig) : c[f] = alone.c[f]

\* C25 witness: the trace protocol is http/protobuf; the trace endpoint was
\* resolved first, to port 4318, and then the metric endpoint, to port 4317
C25_Witness ==
    /\ JustResolved("Metrics")
    /\ prev.ret["getTracesEndpoint"].called
    /\ prev.c.TracesExporterProtocol = ProtocolHTTPProto
    /\ prev.c.ExporterProtocol = ProtocolGRPC
    /\ ret["getTracesEndpoint"].endpoint = <<"h", ":", "4318">>
    /\ ret["getMetricsEndpoint"].endpoint = <<"h", ":", "4317">>

\* ConfigureOpenTelemetry returned a setup error, and the shutdown function it
\* returned may have been called since
SetupFailed == prev.callee = "ConfigureOpenTelemetry" /\ Head(err \o <<"none">>) = "setup error"

\* the constructor of the metric pipeline failed after the trace pipeline was
\* constructed
MetricsFailedAfterTraces ==
    /\ SetupFailed
    /\ NewCalled = <<"NewTracePipeline", "NewMetricsPipeline">>
    /\ otel.tracerProvider.set

\* the functions the shutdown function has to invoke after that failure: the
\* WithShutdown functions and the shutdown callback of the trace pipeline
HooksThenTrace == [i \in 1..Len(c.ShutdownFunctions) |-> c.ShutdownFunctions[i].name]
                  \o <<"trace">>

\* C26 as stated: when the metric setup fails after the trace setup succeeded,
\* a call of the shutdown function returned with the error invokes the
\* WithShutdown functions and the trace callback, each exactly once.
C26_ShutdownAfterMetricsFailure ==
    (MetricsFailedAfterTraces /\ otel.shutdownCalls > 0) =>
        [i \in 1..Len(otel.invoked) |-> otel.invoked[i].name] = HooksThenTrace

\* C26, amended: trace is set up before metric and the first setup failure
\* ends the call: after a failure of the trace constructor the metric
\* constructor has not been called; after a failure of the metric constructor
\* that follows a trace pipeline, the shutdown function returned with the error
\* holds the trace callback, and a call of it invokes the WithShutdown functions
\* and the trace callback, each exactly once, unless one of them returns an
\* error and the Config's logger is the default logger: its Fatalf ends the
\* process at the first such error, the functions after it not invoked.
C26_ShutdownAfterMetricsFailureUnlessExit ==
    LET names == [i \in 1..Len(otel.invoked) |-> otel.invoked[i].name]
        all == HooksThenTrace
    IN  /\ (prev.callee = "ConfigureOpenTelemetry") =>
              NewCalled \in {<<>>, <<"NewTracePipeline">>, <<"NewMetricsPipeline">>,
                             <<"NewTracePipeline", "NewMetricsPipeline">>}
        /\ (SetupFailed /\ ~otel.tracerProvider.set /\ NewCalled # <<>>
                        /\ Head(NewCalled) = "NewTracePipeline") =>
              /\ NewCalled = <<"NewTracePipeline">>
              /\ ~otel.meterProvider.set
              /\ otel.shutdownFuncs = <<>>
        /\ MetricsFailedAfterTraces =>
              /\ ~otel.meterProvider.set
              /\ otel.shutdown = "otelConfig.Shutdown"
              /\ otel.shutdownFuncs = <<"trace">>
        /\ (MetricsFailedAfterTraces /\ otel.shutdownCalls > 0) =>
              IF pc # "exited" THEN names = all
              ELSE /\ c.Logger = DefaultLoggerObj
                   /\ names = SubSeq(all, 1, Len(names))
                   /\ names # <<>>
                   /\ otel.invoked[Len(names)].failed
                   /\ \A i \in 1..(Len(names) - 1) : ~otel.invoked[i].failed

\* C26 witness: the metric constructor failed on the period after the trace
\* pipeline was set up; the shutdown function invoked f1, which failed, then
\* f2 and the trace callback
C26_Witness ==
    /\ MetricsFailedAfterTraces
    /\ otel.shutdownCalls = 1
    /\ pc = "returned"
    /\ Len(otel.invoked) = 3
    /\ otel.invoked[1].name = "f1" /\ otel.invoked[1].failed
    /\ otel.invoked[2].name = "f2"
    /\ otel.invoked[3].name = "trace"

\* C27: ConfigureOpenTelemetry returns its failure as the error: a failing
\* ValidateConfig and a failing pipeline constructor give an error.  The
\* shutdown function returned is nil exactly when the error is one of newConfig
\* or of ValidateConfig, and then no error handler has been installed, no
\* constructor invoked and no provider or propagator set; with no error and
\* with a setup error it is the Shutdown of the OtelConfig, which a caller can
\* call.
C27_ShutdownNilBeforeSetup ==
    LET returned == pc = "returned" /\ prev.callee = "ConfigureOpenTelemetry"
                                    /\ otel.shutdownCalls = 0
        beforeSetup == err # <<>> /\ Head(err) # "setup error"
        failed(provider, constructor) ==
            /\ ~otel[provider].set
            /\ \E i \in 1..Len(NewCalled) : NewCalled[i] = constructor
    IN  /\ returned =>
              /\ otel.shutdown = "nil" <=> beforeSetup
              /\ otel.shutdown # "nil" => otel.shutdown = "otelConfig.Shutdown"
              /\ beforeSetup =>
                    /\ otel.errorHandler = prev.g.errorHandler
                    /\ otel.sets = <<>>
                    /\ NewCalled = <<>>
                    /\ otel.built = <<>>
                    /\ otel.shutdownFuncs = <<>>
              /\ (otel.ValidateConfig = "fails" /\ prev.c # NoConfig) => err # <<>>
              /\ (failed("tracerProvider", "NewTracePipeline")
                  \/ failed("meterProvider", "NewMetricsPipeline")) =>
                    Head(err \o <<"none">>) = "setup error"
              /\ ~beforeSetup => ENABLED ShutdownCall
        /\ (prev.callee = "ConfigureOpenTelemetry" /\ otel.shutdownCalls > 0) =>
              /\ otel.shutdown = "otelConfig.Shutdown"
              /\ ~beforeSetup

\* C27 witness: ValidateConfig failed on a Config with a WithShutdown
\* function, and the caller got the error and no shutdown function
C27_Witness ==
    /\ pc = "returned"
    /\ prev.callee = "ConfigureOpenTelemetry"
    /\ otel.ValidateConfig = "fails"
    /\ prev.c.ShutdownFunctions # <<>>
    /\ err = <<"validation error">>
    /\ otel.shutdown = "nil"
    /\ otel.sets = <<>>

C29_DebugGateFollowsLevel ==
    (/\ pc = "returned"
     /\ prev.callee = "ConfigureOpenTelemetry"
     /\ CalledWithoutLogger
     /\ c.Logger = DefaultLoggerObj) =>
        (defaultLoggerLevel = <<"debug">> <=> prev.c.LogLevel = <<"debug">>)

----------------------------------------------------------------------------
(* precedence: vendor options, caller options and the environment on one field *)

MaxOpts == 2

MaxVendorOpts == 1

\* the option that writes a tagged field
OptionOf(field) ==
    CASE field = "ExporterEndpointInsecure" -> "WithExporterInsecure"
      [] field = "TracesExporterEndpointInsecure" -> "WithTracesExporterInsecure"
      [] field = "MetricsExporterEndpointInsecure" -> "WithMetricsExporterInsecure"
      [] OTHER -> "With" \o field

\* the arguments a caller or vendor passes to the option of a tagged field
OptionValues(tag) ==
    CASE tag.field = "MetricsReportingPeriod" -> {1, 90}
      [] tag.kind = "string" -> {<<>>, <<"a">>, <<"b">>}
      [] tag.kind \in {"bool", "boolptr"} -> {TRUE, FALSE}
      [] tag.kind = "list" -> {NilSlice, Slice(<<>>), Slice(<< <<"b3">> >>)}
      [] tag.kind = "map" -> {<<"k1">> :> <<"a">>, <<"k1">> :> <<"b">>, <<"k2">> :> <<"b">>}

\* the texts the variable of a tagged field is set to
EnvTexts(tag) ==
    CASE tag.kind = "string" -> {<<>>, <<"e">>, <<" ", "e">>}
      [] tag.kind \in {"bool", "boolptr"} ->
            {<<>>, <<"true">>, <<"false">>, <<"0">>, <<"x">>}
      [] tag.kind = "list" -> {<<>>, <<"b3">>, <<"b3", ",", " ", "w3c">>}
      [] tag.kind = "map" ->
            {<<>>, <<"k1", "=", "e">>, <<"k1", "=", "e", ",", "k3", "=", " ", "f">>,
             <<"junk">>}

\* the lists of at most max options writing the field of tag
OptionLists(tag, max) ==
    UNION { [1..n -> {Opt(OptionOf(tag.field), v) : v \in OptionValues(tag)}] : n \in 0..max }

InitOverlay ==
    \E i \in 1..Len(EnvTags) :
      LET tag == EnvTags[i]
      IN  \E e \in {Unset} \cup {SetTo(t) : t \in EnvTexts(tag)},
             list \in OptionLists(tag, MaxOpts),
             hook \in {NotRegistered} \cup
                      {Registered(l) : l \in OptionLists(tag, MaxVendorOpts)} :
            Start([EmptyEnv EXCEPT ![tag.key] = e], list, hook)

NextOverlay == newConfigCall

SpecOverlay == InitOverlay /\ [][NextOverlay]_vars

\* what envconfig makes of a non-empty text for a field of a kind
EnvValue(kind, text) ==
    CASE kind = "string" -> text
      [] kind = "list" -> ParseList(text)
      [] kind = "map" -> ParseMap(text).v
      [] kind = "bool" -> ParseBool(text).v
      [] kind = "boolptr" -> PtrBool(ParseBool(text).v)

\* the options newConfig applies, in the order it applies them
Applied == (IF SetVendorOptions.registered THEN SetVendorOptions.options ELSE <<>>) \o opts

\* the applied options that write the field
Writes(field) == SelectSeq(Applied, LAMBDA o : o.name = OptionOf(field))

\* what an option of the field of tag writes when given the argument v
Written(tag, v) ==
    CASE tag.field = "MetricsReportingPeriod" -> DurationString(v)
      [] tag.kind = "boolptr" -> PtrBool(v)
      [] OTHER -> v

\* the value of the field of tag after the writes w: that of the last write; in
\* a map, per key, that of the last write of the key
LastWritten(tag, w) ==
    IF tag.kind = "map"
    THEN [k \in UNION {DOMAIN w[j].value : j \in 1..Len(w)} |->
            LET last == CHOOSE j \in 1..Len(w) :
                            /\ k \in DOMAIN w[j].value
                            /\ \A j2 \in (j+1)..Len(w) : k \notin DOMAIN w[j2].value
            IN  w[last].value[k]]
    ELSE Written(tag, w[Len(w)].value)

\* the value of the field of tag once the options have been applied: that of
\* the last write, else the value newConfig starts from
AfterOptions(tag) ==
    IF Writes(tag.field) # <<>> THEN LastWritten(tag, Writes(tag.field))
    ELSE CASE tag.field = "ExporterEndpoint" -> DefaultExporterEndpoint
           [] tag.kind = "string" -> <<>>
           [] tag.kind = "list" -> NilSlice
           [] tag.kind = "map" -> EmptyMap
           [] tag.kind = "bool" -> FALSE
           [] tag.kind = "boolptr" -> NilBool

C2_EnvBoolWins ==
    Built =>
      \A i \in 1..Len(EnvTags) :
        LET tag == EnvTags[i]
        IN  (/\ tag.kind \in {"bool", "boolptr"}
             /\ environ[tag.key].set
             /\ ParseBool(environ[tag.key].val).ok) =>
              c[tag.field] = EnvValue(tag.kind, environ[tag.key].val)

\* C3 as stated: with the variable of a field unset, the field holds the value
\* of the last option that wrote it, vendor options first, caller options next.
C3_LastOptionWins ==
    Built =>
      \A i \in 1..Len(EnvTags) :
        LET tag == EnvTags[i]
        IN  (~environ[tag.key].set /\ Writes(tag.field) # <<>>) =>
              c[tag.field] = LastWritten(tag, Writes(tag.field))

\* C3: with the variable of a field unset, the field holds the value of the
\* last option that wrote it, vendor options first, caller options next;
\* unless that value is the empty string or a nil list and the tag of the
\* field has a default, and then the field holds the default.
C3_LastOptionWinsOrDefault ==
    Built =>
      \A i \in 1..Len(EnvTags) :
        LET tag == EnvTags[i]
            last == LastWritten(tag, Writes(tag.field))
        IN  (~environ[tag.key].set /\ Writes(tag.field) # <<>>) =>
              c[tag.field] =
                IF /\ tag.hasDefault
                   /\ \/ tag.kind = "string" /\ last = <<>>
                      \/ tag.kind = "list" /\ last = NilSlice
                THEN EnvValue(tag.kind, tag.default)
                ELSE last

\* C3 witness: the vendor wrote the service name "a", the caller "b"
C3_Witness ==
    /\ Built
    /\ SetVendorOptions = Registered(<<Opt("WithServiceName", <<"a">>)>>)
    /\ opts = <<Opt("WithServiceName", <<"b">>)>>
    /\ c.ServiceName = <<"b">>

\* C22: with no vendor option, a field that no caller option writes and whose
\* variable is unset holds its documented default when newConfig returns a
\* Config; and the generic endpoint holds what a caller option or a non-empty
\* OTEL_EXPORTER_OTLP_ENDPOINT gave it, DefaultExporterEndpoint being used only
\* when neither did.
C22_DocumentedDefaults ==
    LET documented(field) ==
            CASE field = "ExporterEndpoint" -> DefaultExporterEndpoint
              [] field = "ExporterProtocol" -> <<"grpc">>
              [] field = "ServiceVersion" -> <<"unknown">>
              [] field = "MetricsReportingPeriod" -> <<"30s">>
              [] field = "LogLevel" -> <<"info">>
              [] field = "Propagators" -> Slice(<< <<"tracecontext">>, <<"baggage">> >>)
              [] field \in {"TracesEnabled", "MetricsEnabled"} -> PtrBool(TRUE)
              [] field \in {"ExporterEndpointInsecure", "TracesExporterEndpointInsecure",
                            "MetricsExporterEndpointInsecure"} -> FALSE
              [] field \in {"TracesExporterEndpoint", "MetricsExporterEndpoint",
                            "TracesExporterProtocol", "MetricsExporterProtocol",
                            "ServiceName"} -> <<>>
              [] field \in {"Headers", "TracesHeaders", "MetricsHeaders",
                            "ResourceAttributes"} -> EmptyMap
        endpoint == environ["OTEL_EXPORTER_OTLP_ENDPOINT"]
        written == SelectSeq(opts, LAMBDA o : o.name = "WithExporterEndpoint")
    IN  (Built /\ ~SetVendorOptions.registered) =>
          /\ \A i \in 1..Len(EnvTags) :
                (Writes(EnvTags[i].field) = <<>> /\ ~environ[EnvTags[i].key].set) =>
                    c[EnvTags[i].field] = documented(EnvTags[i].field)
          /\ (endpoint.set /\ endpoint.val # <<>>) => c.ExporterEndpoint = endpoint.val
          /\ (written # <<>> /\ ~(endpoint.set /\ endpoint.val # <<>>)) =>
                c.ExporterEndpoint = written[Len(written)].value

\* C22 witness: the caller wrote the empty generic endpoint and nothing else,
\* the endpoint stayed empty and the other fields hold their defaults
C22_Witness ==
    /\ Built
    /\ ~SetVendorOptions.registered
    /\ opts = <<Opt("WithExporterEndpoint", <<>>)>>
    /\ ~environ["OTEL_EXPORTER_OTLP_ENDPOINT"].set
    /\ c.ExporterEndpoint = <<>>
    /\ c.ExporterProtocol = <<"grpc">>
    /\ c.Propagators = Slice(<< <<"tracecontext">>, <<"baggage">> >>)

\* C30 as stated: in every Config newConfig returns, the generic protocol, the
\* log level, the reporting period and the service version are non-empty and
\* the two enabled flags are set.
C30_NonEmptyAfterNewConfig ==
    Built =>
        /\ \A f \in {"ExporterProtocol", "LogLevel", "MetricsReportingPeriod",
                      "ServiceVersion"} : c[f] # <<>>
        /\ ~c.TracesEnabled.isNil /\ ~c.MetricsEnabled.isNil

\* C30, amended: in every Config newConfig returns, the two enabled flags are
\* set, and each of the generic protocol, the log level, the reporting period
\* and the service version is non-empty unless its variable is set to the empty
\* text and the options left the field empty, and then it is empty; newConfig
\* fails on a malformed variable only, whatever the options.
C30_NonEmptyUnlessEmptyVariable ==
    /\ Built =>
          /\ \A f \in {"ExporterProtocol", "LogLevel", "MetricsReportingPeriod",
                        "ServiceVersion"} :
                c[f] = <<>> <=> /\ environ[TagOf(f).key] = SetTo(<<>>)
                                /\ AfterOptions(TagOf(f)) = <<>>
          /\ ~c.TracesEnabled.isNil /\ ~c.MetricsEnabled.isNil
    /\ pc \in {"failed", "exited"} =>
          \E i \in 1..Len(EnvTags) :
              /\ environ[EnvTags[i].key].set
              /\ \/ EnvTags[i].kind \in {"bool", "boolptr"}
                    /\ ~ParseBool(environ[EnvTags[i].key].val).ok
                 \/ EnvTags[i].kind = "map"
                    /\ ~ParseMap(environ[EnvTags[i].key].val).ok

\* C30 witness: OTEL_LOG_LEVEL is set to the empty text, the caller wrote the
\* empty log level, and the Config holds no log level
C30_Witness ==
    /\ Built
    /\ environ["OTEL_LOG_LEVEL"] = SetTo(<<>>)
    /\ opts = <<Opt("WithLogLevel", <<>>)>>
    /\ c.LogLevel = <<>>
    /\ c.ExporterProtocol = <<"grpc">>
    /\ ~c.TracesEnabled.isNil

====
